---- MODULE Spec2Model ----
(***************************************************************************)
(* Model of the Mantis MCP server: the data gateway (MantisApi) with its   *)
(* request cache and REST error interceptor, the tool facade               *)
(* (withMantisConfigured) and the brute-force user enumeration (get_users).*)
(*                                                                         *)
(* Every tool invocation is an async handler.  It runs synchronously up to *)
(* its next await of a network request; the request's answer resumes it.   *)
(* A step of the model is one such synchronous run.                        *)
(***************************************************************************)
EXTENDS Integers, Sequences, FiniteSets, TLC

\* ------------------------------------------------------------------ bounds
MaxCalls == 2        \* invocations started in one behaviour
MaxTicks == 1        \* clock advances in one behaviour
TickMs == 300000     \* milliseconds per clock advance
MaxUserId == 2       \* the tracker has no user with a larger id
MaxRetries == 2      \* probes of get_users answered by a failure that is not a 404

\* the invocations in progress: one client, which waits for each answer before
\* it sends its next request
Procs == {1}

\* `undefined`: an argument that was not given, a field that is not set
NoValue == -1

\* ------------------------------------------------------- program constants
USERNAME_TTL_MS == 300000
NOT_FOUND_LIMIT == 10
DEFAULT_PAGE_SIZE == 50
DEFAULT_PAGE == 1
\* the defaults of the get_issues tool's pageSize and page parameters
TOOL_PAGE_SIZE == 20
TOOL_PAGE == 0

VARIABLES
  config,    \* the parsed configuration, fixed at start-up
  now,       \* Date.now()
  cache,     \* MantisApi.cache: key -> {data, timestamp}
  seq,       \* number of network requests sent so far; a request's id
  pc,        \* per invocation: "idle", "wait" (suspended at an await), "loop", "done"
  call,      \* per invocation: the operation and its arguments
  stage,     \* per invocation: which await it is suspended at
  sent,      \* per invocation: the requests it issued, with their answers
  ret,       \* per invocation: what the gateway operation returned or threw
  resp,      \* per invocation: the response envelope of the facade
  snap,      \* history: per invocation, the cache as it was when the invocation started
  calls,     \* history: invocations started
  ticks,     \* history: clock advances
  enum,      \* get_users: the loop's locals and its probe history
  tracker,   \* the data the tracker holds, fixed where no mutation is modelled
  results    \* history: what the tool invocations that ended have returned

vars == <<config, now, cache, seq, pc, call, stage, sent, ret, resp,
          snap, calls, ticks, enum, tracker, results>>

\* ------------------------------------------------------------ JS helpers
\* JavaScript truthiness of an optional number (or of a string, given by its length)
Truthy(x) == x # NoValue /\ x # 0

EmptyCache == [k \in {} |-> NoValue]

\* a cache key: the template's fixed text and the values interpolated into it
Key(kind, args) == <<kind, args>>

\* ------------------------------------------------------------ the errors
NoErr == [name |-> "none", message |-> "", statusCode |-> NoValue, response |-> NoValue]

MantisApiError(message, statusCode, response) ==
  [name |-> "MantisApiError", message |-> message,
   statusCode |-> statusCode, response |-> response]

\* the answers of the network to a request: the axios outcome
HttpStatuses == {404, 500}
Failures == {[ok |-> FALSE, hasResponse |-> TRUE, hasRequest |-> TRUE, status |-> s, echo |-> FALSE]
               : s \in HttpStatuses}
            \cup {[ok |-> FALSE, hasResponse |-> FALSE, hasRequest |-> TRUE, status |-> NoValue, echo |-> FALSE],
                  [ok |-> FALSE, hasResponse |-> FALSE, hasRequest |-> FALSE, status |-> NoValue, echo |-> FALSE]}
Success(echo) == [ok |-> TRUE, hasResponse |-> TRUE, hasRequest |-> TRUE, status |-> 200, echo |-> echo]
Pending == [ok |-> FALSE, hasResponse |-> FALSE, hasRequest |-> FALSE, status |-> 0, echo |-> FALSE]

\* an interceptor that gives no status code when no response was received
InterceptorNoStatusForNoResponse(o, body) ==
  IF o.hasResponse THEN MantisApiError("API error", o.status, body)
  ELSE MantisApiError("No API response received", NoValue, NoValue)

\* the response interceptor's rejection handler; body is error.response.data
ResponseInterceptor(o, body) ==
  IF o.hasResponse THEN MantisApiError("API error", o.status, body)
  ELSE IF o.hasRequest THEN MantisApiError("No API response received", 0, NoValue)
  ELSE MantisApiError("Request error", NoValue, NoValue)

\* ------------------------------------------------------------ the cache
CacheIds(c) == {c[k].data : k \in DOMAIN c}

CacheSet(c, key, data, t) ==
  [k \in DOMAIN c \cup {key} |->
     IF k = key THEN [data |-> data, timestamp |-> t] ELSE c[k]]

\* a clearCache that clears nothing
KeepCache(c) == c

\* clearCache(): this.cache.clear()
ClearCache(c) == EmptyCache

\* a time to live compared in seconds with ages in milliseconds
TtlInSeconds(cfg) == cfg.CACHE_TTL_SECONDS

\* config.CACHE_TTL_SECONDS * 1000
CacheTtlMs(cfg) == cfg.CACHE_TTL_SECONDS * 1000

\* cachedData && now - cachedData.timestamp < ttl
IsLive(c, key, t, ttl) == key \in DOMAIN c /\ t - c[key].timestamp < ttl

\* ------------------------------------------- the steps of an async handler
\* What the synchronous run of a handler leaves behind, up to its next await
\* (pc "wait") or its return or throw (pc "done").
NoRet == [kind |-> "none", data |-> NoValue, err |-> NoErr, cached |-> FALSE]

Returned(c, log, v, hit) ==
  [cache |-> c, sent |-> log, pc |-> "done", stage |-> "none",
   ret |-> [kind |-> "value", data |-> v, err |-> NoErr, cached |-> hit]]

Thrown(c, log, e) ==
  [cache |-> c, sent |-> log, pc |-> "done", stage |-> "none",
   ret |-> [kind |-> "throw", data |-> NoValue, err |-> e, cached |-> FALSE]]

Request(method, url, key, body) ==
  [method |-> method, url |-> url, key |-> key, body |-> body,
   id |-> seq + 1, out |-> Pending]

Awaiting(c, log, req, stg) ==
  [cache |-> c, sent |-> Append(log, req), pc |-> "wait",
   stage |-> stg, ret |-> NoRet]

NoKey == Key("", <<>>)

\* ------------------------------------------------- the gateway: the reads
\* cachedRequest, up to `await requestFn()`
CachedRequest(key, url, c, log) ==
  IF config.CACHE_ENABLED /\ IsLive(c, key, now, CacheTtlMs(config))
  THEN Returned(c, log, c[key].data, TRUE)
  ELSE Awaiting(c, log, Request("GET", url, key, ""), "cached")

\* a cachedRequest that drops the entry of its key when the request fails
CachedRequestResumeDropping(req, o, c, log) ==
  IF o.ok
  THEN Returned(IF config.CACHE_ENABLED THEN CacheSet(c, req.key, req.id, now) ELSE c,
                log, req.id, FALSE)
  ELSE Thrown([k \in DOMAIN c \ {req.key} |-> c[k]], log, ResponseInterceptor(o, req.id))

\* cachedRequest, from the answer of requestFn() on
CachedRequestResume(req, o, c, log) ==
  IF o.ok
  THEN Returned(IF config.CACHE_ENABLED THEN CacheSet(c, req.key, req.id, now) ELSE c,
                log, req.id, FALSE)
  ELSE Thrown(c, log, ResponseInterceptor(o, req.id))

\* a parameter object: its fields, as <<name, value>>, in the order in which
\* they were given; a string value is the sequence of its characters
Has(params, name) == \E i \in DOMAIN params : params[i][1] = name

Value(params, name) == params[CHOOSE i \in DOMAIN params : params[i][1] = name][2]

\* params.name || dflt, for a numeric parameter
NumberOr(params, name, dflt) ==
  IF Has(params, name) /\ Truthy(Value(params, name)) THEN Value(params, name) ELSE dflt

\* encodeURIComponent: letters stay, a space and an ampersand are escaped
EncodeChar(ch) ==
  CASE ch = " " -> <<"%", "2", "0">>
    [] ch = "&" -> <<"%", "2", "6">>
    [] OTHER -> <<ch>>

RECURSIVE EncodeURIComponent(_)
EncodeURIComponent(str) ==
  IF str = <<>> THEN <<>> ELSE EncodeChar(Head(str)) \o EncodeURIComponent(Tail(str))

\* the parameters getIssues looks at, in the order in which it looks at them,
\* with the fragment each adds and how the value is written
FilterFields ==
  << <<"projectId", "&project_id=", "number">>, <<"statusId", "&status_id=", "number">>,
     <<"handlerId", "&handler_id=", "number">>, <<"reporterId", "&reporter_id=", "number">>,
     <<"priority", "&priority=", "number">>, <<"severity", "&severity=", "number">>,
     <<"search", "&search=", "encoded">>, <<"filterId", "&filter_id=", "number">>,
     <<"select", "&select=", "joined">>, <<"sort", "&sort=", "encoded">>,
     <<"dir", "&dir=", "encoded">> >>

\* if (params.x) filter += `&x=${...}`
Fragment(params, f) ==
  IF ~Has(params, f[1]) THEN <<>>
  ELSE LET v == Value(params, f[1])
       IN IF f[3] = "number" THEN (IF Truthy(v) THEN << <<f[2], v>> >> ELSE <<>>)
          ELSE IF v = <<>> THEN <<>>
          ELSE IF f[3] = "encoded" THEN << <<f[2], EncodeURIComponent(v)>> >>
          ELSE << <<f[2], v>> >>

\* a filter that takes the parameters in the order in which the object holds them
RECURSIVE FilterInObjectOrder(_)
FilterInObjectOrder(params) ==
  IF params = <<>> THEN <<>>
  ELSE (LET fs == {i \in DOMAIN FilterFields : FilterFields[i][1] = Head(params)[1]}
        IN IF fs = {} THEN <<>> ELSE Fragment(params, FilterFields[CHOOSE i \in fs : TRUE]))
       \o FilterInObjectOrder(Tail(params))

RECURSIVE FilterFrom(_, _)
FilterFrom(params, i) ==
  IF i > Len(FilterFields) THEN <<>>
  ELSE Fragment(params, FilterFields[i]) \o FilterFrom(params, i + 1)

\* the filter of getIssues: a fragment per truthy parameter
IssuesFilter(params) == FilterFrom(params, 1)

IssuesKey(params) ==
  Key("issues-", <<IssuesFilter(params), NumberOr(params, "page", DEFAULT_PAGE),
                   NumberOr(params, "pageSize", DEFAULT_PAGE_SIZE)>>)

IssuesUrl(params) ==
  <<"/issues?", <<NumberOr(params, "page", DEFAULT_PAGE),
                  NumberOr(params, "pageSize", DEFAULT_PAGE_SIZE)>>, IssuesFilter(params)>>

GetIssues(params, c, log) == CachedRequest(IssuesKey(params), IssuesUrl(params), c, log)

GetIssueById(issueId, c, log) ==
  CachedRequest(Key("issue-", <<issueId>>), <<"/issues/", <<issueId>>>>, c, log)

GetCurrentUser(c, log) ==
  CachedRequest(Key("current-user", <<>>), <<"/users/me", <<>>>>, c, log)

\* a getUser without the check of its argument
GetUserUnchecked(userId, c, log) ==
  CachedRequest(Key("user-", <<userId>>), <<"/users/", <<userId>>>>, c, log)

GetUser(userId, c, log) ==
  IF ~Truthy(userId)
  THEN Thrown(c, log, MantisApiError("User ID is required", NoValue, NoValue))
  ELSE CachedRequest(Key("user-", <<userId>>), <<"/users/", <<userId>>>>, c, log)

GetProjects(c, log) ==
  CachedRequest(Key("projects", <<>>), <<"/projects", <<>>>>, c, log)

GetUsersByProjectId(projectId, c, log) ==
  CachedRequest(Key("users-by-project-", <<projectId>>),
                <<"/projects/users", <<projectId>>>>, c, log)

\* getUserByUsername: its own look-up in the same map, up to the await
GetUserByUsername(username, c, log) ==
  LET key == Key("user_", <<username>>)
  IN IF IsLive(c, key, now, USERNAME_TTL_MS)
     THEN Returned(c, log, c[key].data, TRUE)
     ELSE Awaiting(c, log, Request("GET", <<"/users/username/", <<username>>>>, key, ""),
                   "username")

\* getUserByUsername, from the answer on; a MantisApiError is rethrown as it is
GetUserByUsernameResume(req, o, c, log) ==
  IF o.ok
  THEN Returned(CacheSet(c, req.key, req.id, now), log, req.id, FALSE)
  ELSE Thrown(c, log, ResponseInterceptor(o, req.id))

\* --------------------------------------------- the gateway: the mutations
CreateIssue(c, log) ==
  Awaiting(c, log, Request("POST", <<"/issues", <<>>>>, NoKey, "issue"), "create")

AddIssueNote(issueId, viewState, stg, c, log) ==
  Awaiting(c, log, Request("POST", <<"/issues/notes", <<issueId>>>>, NoKey, viewState), stg)

Patch(issueId, c, log) ==
  Awaiting(c, log, Request("PATCH", <<"/issues/", <<issueId>>>>, NoKey, "update"), "patch")

UpdateIssue(issueId, c, log) == Patch(issueId, c, log)

\* a status change that posts its note as a private one
ChangeIssueStatusPrivateNote(issueId, note, c, log) ==
  IF Truthy(note) THEN AddIssueNote(issueId, "private", "statusNote", c, log)
  ELSE Patch(issueId, c, log)

ChangeIssueStatus(issueId, note, c, log) ==
  IF Truthy(note)
  THEN AddIssueNote(issueId, "public", "statusNote", c, log)
  ELSE Patch(issueId, c, log)

\* createIssue and addIssueNote, from the answer of the POST on
PostResume(req, o, c, log) ==
  IF o.ok
  THEN Returned(ClearCache(c), log, req.id, FALSE)
  ELSE Thrown(c, log, ResponseInterceptor(o, req.id))

\* changeIssueStatus, from the answer of its note's POST on
StatusNoteResume(issueId, req, o, c, log) ==
  IF o.ok
  THEN Patch(issueId, ClearCache(c), log)
  ELSE Thrown(c, log, ResponseInterceptor(o, req.id))

\* a fallback that re-reads without clearing the cache first
PatchResumeStale(issueId, req, o, c, log) ==
  IF o.ok /\ o.echo THEN Returned(ClearCache(c), log, req.id, FALSE)
  ELSE GetIssueById(issueId, c, log)

\* the earlier copy of updateIssue and changeIssueStatus: no catch around the
\* PATCH, and its answer returned whether or not it echoes the issue
PatchResumePropagating(issueId, req, o, c, log) ==
  IF o.ok
  THEN Returned(ClearCache(c), log, req.id, FALSE)
  ELSE Thrown(c, log, ResponseInterceptor(o, req.id))

\* updateIssue and changeIssueStatus, from the answer of the PATCH on: both
\* the try and the catch clear the cache, and without an echoed issue the
\* handler goes on to getIssueById
PatchResume(issueId, req, o, c, log) ==
  IF o.ok /\ o.echo
  THEN Returned(ClearCache(c), log, req.id, FALSE)
  ELSE GetIssueById(issueId, ClearCache(c), log)

\* --------------------------------------------------------------- the facade
\* a configuration check that always succeeds
AlwaysConfigured == TRUE

\* isMantisConfigured(): !!config.MANTIS_API_KEY
isMantisConfigured == config.MANTIS_API_KEY

\* the gateway operations no tool hands out directly
GatewayOnly == {"getUser", "getCurrentUser"}
IsTool(op) == op \notin GatewayOnly

\* the tool whose handler calls the gateway operation
ToolOf(op) ==
  CASE op = "getIssues" -> "get_issues"
    [] op = "getIssueById" -> "get_issue_by_id"
    [] op = "getUserByUsername" -> "get_user"
    [] op = "getProjects" -> "get_projects"
    [] op = "getUsersByProjectId" -> "get_users_by_project_id"
    [] op = "createIssue" -> "create_issue"
    [] op = "updateIssue" -> "update_issue"
    [] op = "changeIssueStatus" -> "change_issue_status"
    [] op = "addIssueNote" -> "add_issue_note"
    [] OTHER -> op

NoResp == [isError |-> FALSE, error |-> <<"", "">>, http |-> NoValue, text |-> "none"]

Failure(prefix, message, http) ==
  [isError |-> TRUE, error |-> <<prefix, message>>, http |-> http, text |-> "error"]

\* a facade whose last catch branch is missing: a thrown non-Error escapes
WithMantisConfiguredRethrowing(toolName, configured, outcome) ==
  IF ~configured THEN Failure("Mantis API is not configured", "", NoValue)
  ELSE IF outcome.kind = "value"
  THEN [isError |-> FALSE, error |-> <<"", "">>, http |-> NoValue, text |-> "result"]
  ELSE IF outcome.err.name = "MantisApiError"
  THEN Failure("Mantis API error: ", outcome.err.message,
               IF Truthy(outcome.err.statusCode) THEN outcome.err.statusCode ELSE NoValue)
  ELSE IF outcome.err.name = "Error" THEN Failure("", outcome.err.message, NoValue)
  ELSE NoResp

\* withMantisConfigured(toolName, action), given how action() ends
WithMantisConfigured(toolName, configured, outcome) ==
  IF ~configured THEN Failure("Mantis API is not configured", "", NoValue)
  ELSE IF outcome.kind = "value"
  THEN [isError |-> FALSE, error |-> <<"", "">>, http |-> NoValue, text |-> "result"]
  ELSE IF outcome.err.name = "MantisApiError"
  THEN Failure("Mantis API error: ", outcome.err.message,
               IF Truthy(outcome.err.statusCode) THEN outcome.err.statusCode ELSE NoValue)
  ELSE IF outcome.err.name = "Error"
  THEN Failure("", outcome.err.message, NoValue)
  ELSE Failure("Error executing ", toolName, NoValue)

\* ---------------------------------------------------------- the invocations
NoCall == [op |-> "none", id |-> NoValue, note |-> NoValue, vs |-> ""]
Invocation(op, id, note, vs) == [op |-> op, id |-> id, note |-> note, vs |-> vs]

ReadCalls ==
  {Invocation("getIssues", pid, NoValue, "") : pid \in {NoValue, 3}}
  \cup {Invocation("getIssueById", 1, NoValue, ""),
        Invocation("getCurrentUser", NoValue, NoValue, ""),
        Invocation("getProjects", NoValue, NoValue, ""),
        Invocation("getUsersByProjectId", 3, NoValue, ""),
        Invocation("getUserByUsername", 1, NoValue, "")}
  \cup {Invocation("getUser", uid, NoValue, "") : uid \in {NoValue, 0, 1}}

WriteCalls ==
  {Invocation("createIssue", NoValue, NoValue, ""),
   Invocation("updateIssue", 1, NoValue, "")}
  \cup {Invocation("changeIssueStatus", 1, n, "") : n \in {NoValue, 0, 1}}
  \cup {Invocation("addIssueNote", 1, NoValue, v) : v \in {"public", "private"}}

ReadOps == {c.op : c \in ReadCalls}
WriteOps == {c.op : c \in WriteCalls}

\* the synchronous start of a gateway operation
Begin(cl, c, log) ==
  CASE cl.op = "getIssues" ->
         GetIssues(<<<<"projectId", cl.id>>, <<"pageSize", TOOL_PAGE_SIZE>>,
                     <<"page", TOOL_PAGE>>>>, c, log)
    [] cl.op = "getIssueById" -> GetIssueById(cl.id, c, log)
    [] cl.op = "getCurrentUser" -> GetCurrentUser(c, log)
    [] cl.op = "getUser" -> GetUser(cl.id, c, log)
    [] cl.op = "getProjects" -> GetProjects(c, log)
    [] cl.op = "getUsersByProjectId" -> GetUsersByProjectId(cl.id, c, log)
    [] cl.op = "getUserByUsername" -> GetUserByUsername(cl.id, c, log)
    [] cl.op = "createIssue" -> CreateIssue(c, log)
    [] cl.op = "updateIssue" -> UpdateIssue(cl.id, c, log)
    [] cl.op = "changeIssueStatus" -> ChangeIssueStatus(cl.id, cl.note, c, log)
    [] cl.op = "addIssueNote" -> AddIssueNote(cl.id, cl.vs, "note", c, log)

\* the continuation of a gateway operation at the answer o to its request
Resume(cl, stg, req, o, c, log) ==
  CASE stg = "cached" -> CachedRequestResume(req, o, c, log)
    [] stg = "username" -> GetUserByUsernameResume(req, o, c, log)
    [] stg = "create" -> PostResume(req, o, c, log)
    [] stg = "note" -> PostResume(req, o, c, log)
    [] stg = "statusNote" -> StatusNoteResume(cl.id, req, o, c, log)
    [] stg = "patch" -> PatchResume(cl.id, req, o, c, log)

\* the answers a request can get: only a PATCH is looked at for its echo
Outcomes(req) ==
  Failures \cup {Success(TRUE)} \cup (IF req.method = "PATCH" THEN {Success(FALSE)} ELSE {})

Last(s) == s[Len(s)]
WithAnswer(log, o) == [log EXCEPT ![Len(log)].out = o]

\* get_users: the locals id, notFoundCount and users; and, as history, the
\* number of the latest probes in a row that were answered 404 (run404) and
\* the number of probes, of all invocations, that failed otherwise (retries)
NoEnum == [id |-> 0, notFoundCount |-> 0, users |-> <<>>, run404 |-> 0, retries |-> 0]

Configs ==
  {c \in [CACHE_ENABLED : BOOLEAN, CACHE_TTL_SECONDS : {300, 600}, MANTIS_API_KEY : BOOLEAN] :
     c.CACHE_ENABLED \/ c.CACHE_TTL_SECONDS = 300}

Init ==
  /\ config \in Configs
  /\ now = 0
  /\ cache = EmptyCache
  /\ seq = 0
  /\ pc = [p \in Procs |-> "idle"]
  /\ call = [p \in Procs |-> NoCall]
  /\ stage = [p \in Procs |-> "none"]
  /\ sent = [p \in Procs |-> <<>>]
  /\ ret = [p \in Procs |-> NoRet]
  /\ resp = [p \in Procs |-> NoResp]
  /\ snap = [p \in Procs |-> EmptyCache]
  /\ calls = 0
  /\ ticks = 0
  /\ enum = NoEnum
  /\ tracker = NoValue
  /\ results = <<>>

\* the effect of one synchronous run r of invocation p, whose call is cl
Apply(p, cl, r) ==
  /\ cache' = r.cache
  /\ seq' = IF r.pc = "wait" THEN seq + 1 ELSE seq
  /\ pc' = [pc EXCEPT ![p] = r.pc]
  /\ stage' = [stage EXCEPT ![p] = r.stage]
  /\ sent' = [sent EXCEPT ![p] = r.sent]
  /\ ret' = [ret EXCEPT ![p] = r.ret]
  /\ resp' = [resp EXCEPT ![p] =
                IF r.pc = "done" /\ IsTool(cl.op)
                THEN WithMantisConfigured(ToolOf(cl.op), TRUE, r.ret) ELSE NoResp]

\* a tool (or a gateway operation) is invoked, in a free slot or in the slot of
\* an invocation that has returned, and runs up to its first await
Invoke(p, cl) ==
  /\ pc[p] \in {"idle", "done"}
  /\ calls < MaxCalls
  /\ calls' = calls + 1
  /\ call' = [call EXCEPT ![p] = cl]
  /\ snap' = [snap EXCEPT ![p] = cache]
  /\ IF IsTool(cl.op) /\ ~isMantisConfigured
     THEN /\ pc' = [pc EXCEPT ![p] = "done"]
          /\ resp' = [resp EXCEPT ![p] = WithMantisConfigured(ToolOf(cl.op), FALSE, NoRet)]
          /\ stage' = [stage EXCEPT ![p] = "none"]
          /\ sent' = [sent EXCEPT ![p] = <<>>]
          /\ ret' = [ret EXCEPT ![p] = NoRet]
          /\ UNCHANGED <<cache, seq>>
     ELSE Apply(p, cl, Begin(cl, cache, <<>>))
  /\ UNCHANGED <<config, now, ticks, enum>>
  /\ UNCHANGED <<tracker, results>>

\* the answer to the request invocation p awaits arrives and resumes it
Respond(p, o) ==
  /\ pc[p] = "wait"
  /\ call[p].op # "get_users"
  /\ o \in Outcomes(Last(sent[p]))
  /\ Apply(p, call[p],
           Resume(call[p], stage[p], Last(sent[p]), o, cache, WithAnswer(sent[p], o)))
  /\ UNCHANGED <<config, now, call, snap, calls, ticks, enum>>
  /\ UNCHANGED <<tracker, results>>

\* time passes
Tick ==
  /\ ticks < MaxTicks
  /\ ticks' = ticks + 1
  /\ now' = now + TickMs
  /\ UNCHANGED <<config, cache, seq, pc, call, stage, sent, ret, resp, snap,
                 calls, enum>>
  /\ UNCHANGED <<tracker, results>>

Next ==
  \/ \E p \in Procs, cl \in ReadCalls \cup WriteCalls : Invoke(p, cl)
  \/ \E p \in Procs, o \in Failures \cup {Success(TRUE), Success(FALSE)} : Respond(p, o)
  \/ Tick

Spec == Init /\ [][Next]_vars

\* ------------------------------------------------ get_users: the enumeration
UsersCall == Invocation("get_users", NoValue, NoValue, "")

\* the loop body from the end of `await mantisApi.getUser(id)` on, r being how
\* getUser ended: the try pushes the user, advances and resets the counter; the
\* catch counts a 404 and advances, and does nothing on any other error
AfterProbe(e, r) ==
  IF r.kind = "value"
  THEN [e EXCEPT !.users = Append(@, e.id), !.id = @ + 1, !.notFoundCount = 0, !.run404 = 0]
  ELSE IF r.err.name = "MantisApiError" /\ r.err.statusCode = 404
  THEN [e EXCEPT !.notFoundCount = @ + 1, !.id = @ + 1, !.run404 = @ + 1]
  ELSE [e EXCEPT !.run404 = 0, !.retries = @ + 1]

\* } while (notFoundCount < 10)
LoopsOn(e) == e.notFoundCount < NOT_FOUND_LIMIT

\* the end of one pass: back to the loop head, or the tool returns the users
EndPass(p, e) ==
  /\ enum' = e
  /\ pc' = [pc EXCEPT ![p] = IF LoopsOn(e) THEN "loop" ELSE "done"]
  /\ stage' = [stage EXCEPT ![p] = "none"]
  /\ ret' = [ret EXCEPT ![p] =
               IF LoopsOn(e) THEN NoRet
               ELSE [kind |-> "value", data |-> NoValue, err |-> NoErr, cached |-> FALSE]]
  /\ resp' = [resp EXCEPT ![p] =
                IF LoopsOn(e) THEN NoResp
                ELSE WithMantisConfigured("get_users", TRUE, ret'[p])]

\* the get_users tool is invoked: the facade's check, then the loop's locals
InvokeUsers(p) ==
  /\ pc[p] \in {"idle", "done"}
  /\ calls < MaxCalls
  /\ calls' = calls + 1
  /\ call' = [call EXCEPT ![p] = UsersCall]
  /\ snap' = [snap EXCEPT ![p] = cache]
  /\ sent' = [sent EXCEPT ![p] = <<>>]
  /\ stage' = [stage EXCEPT ![p] = "none"]
  /\ ret' = [ret EXCEPT ![p] = NoRet]
  /\ IF ~isMantisConfigured
     THEN /\ pc' = [pc EXCEPT ![p] = "done"]
          /\ resp' = [resp EXCEPT ![p] = WithMantisConfigured("get_users", FALSE, NoRet)]
          /\ enum' = [NoEnum EXCEPT !.retries = enum.retries]
     ELSE /\ pc' = [pc EXCEPT ![p] = "loop"]
          /\ resp' = [resp EXCEPT ![p] = NoResp]
          /\ enum' = [NoEnum EXCEPT !.id = 1, !.retries = enum.retries]
  /\ UNCHANGED <<config, now, cache, seq, ticks>>
  /\ UNCHANGED <<tracker, results>>

\* one pass of the loop up to the await inside getUser(id), or, when getUser
\* ends without a request, to the end of the pass
ProbeUsers(p) ==
  /\ pc[p] = "loop"
  /\ LET r == GetUser(enum.id, cache, <<>>)
     IN /\ sent' = [sent EXCEPT ![p] = r.sent]
        /\ cache' = r.cache
        /\ IF r.pc = "wait"
           THEN /\ pc' = [pc EXCEPT ![p] = "wait"]
                /\ stage' = [stage EXCEPT ![p] = r.stage]
                /\ seq' = seq + 1
                /\ UNCHANGED <<enum, ret, resp>>
           ELSE /\ seq' = seq
                /\ EndPass(p, AfterProbe(enum, r.ret))
  /\ UNCHANGED <<config, now, call, snap, calls, ticks>>
  /\ UNCHANGED <<tracker, results>>

\* the tracker's answer to the probe: a user only for an id it has, and at most
\* MaxRetries failures other than a 404
ProbeOutcomes(e) ==
  {o \in Failures \cup {Success(TRUE)} :
     /\ o.ok => e.id <= MaxUserId
     /\ (~o.ok /\ o.status # 404) => e.retries < MaxRetries}

\* the answer to the probe resumes getUser and the rest of the pass
AnswerProbe(p, o) ==
  /\ pc[p] = "wait"
  /\ call[p].op = "get_users"
  /\ o \in ProbeOutcomes(enum)
  /\ LET r == CachedRequestResume(Last(sent[p]), o, cache, WithAnswer(sent[p], o))
     IN /\ sent' = [sent EXCEPT ![p] = r.sent]
        /\ cache' = r.cache
        /\ EndPass(p, AfterProbe(enum, r.ret))
  /\ UNCHANGED <<config, now, seq, call, snap, calls, ticks>>
  /\ UNCHANGED <<tracker, results>>

NextUsers ==
  \/ \E p \in Procs : InvokeUsers(p)
  \/ \E p \in Procs : ProbeUsers(p)
  \/ \E p \in Procs, o \in Failures \cup {Success(TRUE)} : AnswerProbe(p, o)

SpecUsers == Init /\ [][NextUsers]_vars

\* ------------------------------------------- the facade over any tool's action
Tools == {ToolOf(c.op) : c \in {d \in ReadCalls \cup WriteCalls : IsTool(d.op)}}
           \cup {"get_users", "get_issue_statistics", "get_assignment_statistics"}

\* the ways a tool's action can end: with a value, or throwing a MantisApiError
\* (with a status, with status 0, with none), another Error, or a value that is
\* not an Error
Endings ==
  {[kind |-> "value", data |-> d, err |-> NoErr, cached |-> FALSE] : d \in {0, 1}}
    \cup {[kind |-> "throw", data |-> NoValue, err |-> e, cached |-> FALSE] :
            e \in {ResponseInterceptor(o, 1) : o \in Failures}
                  \cup {[name |-> "Error", message |-> m, statusCode |-> NoValue,
                         response |-> NoValue] : m \in {"", "failed"}}
                  \cup {[name |-> "notAnError", message |-> "", statusCode |-> NoValue,
                         response |-> NoValue]}}

InitFacade ==
  /\ config \in Configs
  /\ now = 0
  /\ cache = EmptyCache
  /\ seq = 0
  /\ pc = [p \in Procs |-> "action"]
  /\ call \in [Procs -> {Invocation(t, NoValue, NoValue, "") : t \in Tools}]
  /\ stage = [p \in Procs |-> "none"]
  /\ sent = [p \in Procs |-> <<>>]
  /\ ret \in [Procs -> Endings]
  /\ resp = [p \in Procs |-> NoResp]
  /\ snap = [p \in Procs |-> EmptyCache]
  /\ calls = 0
  /\ ticks = 0
  /\ enum = NoEnum
  /\ tracker = NoValue
  /\ results = <<>>

\* withMantisConfigured answers the tool call
Answer(p) ==
  /\ pc[p] = "action"
  /\ pc' = [pc EXCEPT ![p] = "done"]
  /\ resp' = [resp EXCEPT ![p] = WithMantisConfigured(call[p].op, isMantisConfigured, ret[p])]
  /\ UNCHANGED <<config, now, cache, seq, call, stage, sent, ret, snap, calls, ticks, enum>>
  /\ UNCHANGED <<tracker, results>>

NextFacade == \E p \in Procs : Answer(p)

SpecFacade == InitFacade /\ [][NextFacade]_vars

\* --------------------------------------- get_issues: the tool and the gateway
COMPRESSION_THRESHOLD == 102400

\* the lengths the serialized issue list of the tracker may have
PayloadSizes == {COMPRESSION_THRESHOLD - 1, COMPRESSION_THRESHOLD, COMPRESSION_THRESHOLD + 1}

\* the parameters an invocation may give
GivenFields == {<<"projectId", 3>>, <<"search", <<"a", "&">>>>, <<"pageSize", 10>>}

\* the parameter objects: every choice among them, in every order
ParamObjects ==
  UNION {{o \in [1..n -> GivenFields] : \A i, j \in 1..n : o[i][1] = o[j][1] => i = j} :
           n \in 0..Cardinality(GivenFields)}

\* a tool without defaults of its own
NoToolDefaults(params) == params

\* the zod defaults of the get_issues tool for pageSize and page
WithToolDefaults(params) ==
  params \o (IF Has(params, "pageSize") THEN <<>> ELSE << <<"pageSize", TOOL_PAGE_SIZE>> >>)
         \o (IF Has(params, "page") THEN <<>> ELSE << <<"page", TOOL_PAGE>> >>)

\* an invocation of the get_issues tool, or a call of the gateway's getIssues
IssuesCalls ==
  [op : {"getIssues"}, via : {"tool"}, params : ParamObjects]
    \cup [op : {"getIssues"}, via : {"gateway"}, params : {o \in ParamObjects : Len(o) <= 1}]

\* a payload that is compressed only above the threshold
IssuesPayloadAboveThreshold(n, body) ==
  IF n <= COMPRESSION_THRESHOLD
  THEN [compressed |-> FALSE, text |-> <<"json", body>>, length |-> n]
  ELSE [compressed |-> TRUE, data |-> <<"base64", <<"gzip", <<"json", body>>>>>>,
        originalSize |-> n]

\* what the get_issues action returns for an issue list whose serialization
\* has length n: the JSON text, or the envelope around its gzip in base64
IssuesPayload(n, body) ==
  IF n < COMPRESSION_THRESHOLD
  THEN [compressed |-> FALSE, text |-> <<"json", body>>, length |-> n]
  ELSE [compressed |-> TRUE, data |-> <<"base64", <<"gzip", <<"json", body>>>>>>,
        originalSize |-> n]

InitIssues ==
  /\ config \in {c \in Configs : c.MANTIS_API_KEY /\ c.CACHE_TTL_SECONDS = 300}
  /\ now = 0
  /\ cache = EmptyCache
  /\ seq = 0
  /\ pc = [p \in Procs |-> "idle"]
  /\ call = [p \in Procs |-> NoCall]
  /\ stage = [p \in Procs |-> "none"]
  /\ sent = [p \in Procs |-> <<>>]
  /\ ret = [p \in Procs |-> NoRet]
  /\ resp = [p \in Procs |-> NoResp]
  /\ snap = [p \in Procs |-> EmptyCache]
  /\ calls = 0
  /\ ticks = 0
  /\ enum = NoEnum
  /\ tracker \in [size : PayloadSizes, calls : IssuesCalls \X IssuesCalls]
  /\ results = <<>>

\* the rest of the handler once getIssues has ended as r: the tool serializes
\* the list and answers through the facade, a gateway call just returns
EndIssues(p, cl, r) ==
  LET end == IF cl.via = "tool" /\ r.ret.kind = "value"
             THEN [r.ret EXCEPT !.data = IssuesPayload(tracker.size, r.ret.data)]
             ELSE r.ret
  IN /\ pc' = [pc EXCEPT ![p] = "done"]
     /\ stage' = [stage EXCEPT ![p] = "none"]
     /\ ret' = [ret EXCEPT ![p] = end]
     /\ resp' = [resp EXCEPT ![p] =
                   IF cl.via = "tool" THEN WithMantisConfigured("get_issues", TRUE, end)
                   ELSE NoResp]
     /\ results' = Append(results, [call |-> cl, ret |-> end, sent |-> r.sent, at |-> now])

\* the next of the two calls starts and runs up to the await in cachedRequest
InvokeIssues(p) ==
  /\ pc[p] \in {"idle", "done"}
  /\ Len(results) < Len(tracker.calls)
  /\ LET cl == tracker.calls[Len(results) + 1]
         r == GetIssues(IF cl.via = "tool" THEN WithToolDefaults(cl.params) ELSE cl.params,
                        cache, <<>>)
     IN /\ call' = [call EXCEPT ![p] = cl]
        /\ snap' = [snap EXCEPT ![p] = cache]
        /\ calls' = calls + 1
        /\ cache' = r.cache
        /\ sent' = [sent EXCEPT ![p] = r.sent]
        /\ IF r.pc = "wait"
           THEN /\ pc' = [pc EXCEPT ![p] = "wait"]
                /\ stage' = [stage EXCEPT ![p] = r.stage]
                /\ ret' = [ret EXCEPT ![p] = NoRet]
                /\ resp' = [resp EXCEPT ![p] = NoResp]
                /\ seq' = seq + 1
                /\ UNCHANGED results
           ELSE /\ seq' = seq
                /\ EndIssues(p, cl, r)
  /\ UNCHANGED <<config, now, ticks, enum, tracker>>

\* the tracker answers the request for the issue list
RespondIssues(p, o) ==
  /\ pc[p] = "wait"
  /\ LET r == CachedRequestResume(Last(sent[p]), o, cache, WithAnswer(sent[p], o))
     IN /\ cache' = r.cache
        /\ sent' = [sent EXCEPT ![p] = r.sent]
        /\ EndIssues(p, call[p], r)
  /\ UNCHANGED <<config, now, seq, call, snap, calls, ticks, enum, tracker>>

NextIssues ==
  \/ \E p \in Procs : InvokeIssues(p)
  \/ \E p \in Procs, o \in {Success(TRUE), CHOOSE f \in Failures : f.status = 500} :
       RespondIssues(p, o)
  \/ Tick

SpecIssues == InitIssues /\ [][NextIssues]_vars

\* ------------------------------------------------ get_issue_statistics
STATS_PAGE_SIZE == 1000
DAY_MS == 86400000

\* the local calendar at time 0, which is a midnight: the day of the week
\* (0 is Sunday) and the day of the month
WeekDayAtStart == 2
DayOfMonthAtStart == 10

\* new Date(y, m, d), new Date(y, m, d - now.getDay()), new Date(y, m, 1)
StartOfDay(t) == t - (t % DAY_MS)
StartOfWeek(t) == StartOfDay(t) - ((WeekDayAtStart + (t \div DAY_MS)) % 7) * DAY_MS
StartOfMonth(t) == StartOfDay(t) - (DayOfMonthAtStart + (t \div DAY_MS) - 1) * DAY_MS

\* a period that begins at the time of the call
InPeriodSinceNow(created, period, t) == period = "all" \/ created >= t

\* the filter of the switch on params.period
InPeriod(created, period, t) ==
  CASE period = "today" -> created >= StartOfDay(t)
    [] period = "week" -> created >= StartOfWeek(t)
    [] period = "month" -> created >= StartOfMonth(t)
    [] OTHER -> TRUE

PeriodFilter(issues, period, t) ==
  SelectSeq(issues, LAMBDA issue : InPeriod(issue.created_at, period, t))

\* issue.x?.name || fallback; an absent object or name is ""
NameOr(name, fallback) == IF name = "" THEN fallback ELSE name

\* the switch on params.groupBy
GroupKey(issue, groupBy) ==
  CASE groupBy = "status" -> NameOr(issue.status.name, "unknown")
    [] groupBy = "priority" -> NameOr(issue.priority, "unknown")
    [] groupBy = "severity" -> NameOr(issue.severity, "unknown")
    [] groupBy = "handler" -> NameOr(issue.handler.name, "unassigned")
    [] groupBy = "reporter" -> NameOr(issue.reporter, "unknown")

\* statistics.data after the forEach
GroupCounts(filtered, groupBy) ==
  [k \in {GroupKey(filtered[i], groupBy) : i \in DOMAIN filtered} |->
     Cardinality({i \in DOMAIN filtered : GroupKey(filtered[i], groupBy) = k})]

NoIssuesFound == [error |-> "No issues found"]

ActionValue(v) == [kind |-> "value", data |-> v, err |-> NoErr, cached |-> FALSE]

\* an action that treats an empty selection as a failure
GroupStatisticsThrowing(issues, groupBy, period, t) ==
  LET filtered == PeriodFilter(issues, period, t)
  IN IF filtered = <<>>
     THEN [kind |-> "throw", data |-> NoValue, cached |-> FALSE,
           err |-> [name |-> "Error", message |-> "No issues found", statusCode |-> NoValue,
                    response |-> NoValue]]
     ELSE ActionValue([total |-> Len(issues), groupedBy |-> groupBy, period |-> period,
                  data |-> GroupCounts(filtered, groupBy)])

\* the action of get_issue_statistics from the issues on, at time t
GroupStatistics(issues, groupBy, period, t) ==
  LET filtered == PeriodFilter(issues, period, t)
  IN IF filtered = <<>> THEN ActionValue(NoIssuesFound)
     ELSE ActionValue([total |-> Len(issues), groupedBy |-> groupBy, period |-> period,
                  data |-> GroupCounts(filtered, groupBy)])

\* the creation times of the issues the tracker may hold: the last instant
\* before this month, and the first instants of the month, the week and the day
CreatedTimes == {StartOfMonth(0) - 1, StartOfMonth(0), StartOfWeek(0), StartOfDay(0)}

\* the wire issues the tracker may hold; an absent object or name is ""
WireIssues ==
  {[created_at |-> t, status |-> [name |-> k[1]], handler |-> [name |-> k[2]],
    priority |-> k[3], severity |-> k[4], reporter |-> k[5]] :
     t \in CreatedTimes,
     k \in {<<"new", "", "high", "", "bob">>, <<"closed", "alice", "", "minor", "">>}}

\* the tracker holds no issue, one issue or two
IssueLists == {<<>>} \cup {<<a>> : a \in WireIssues} \cup {<<a, b>> : a, b \in WireIssues}

GroupBys == {"status", "priority", "severity", "handler", "reporter"}
Periods == {"all", "today", "week", "month"}

\* the issues in the response with the given request id: what the tracker
\* holds does not change during a behaviour
IssuesOf(reqId) == tracker.issues

InitGroup ==
  /\ config \in {c \in Configs : c.MANTIS_API_KEY /\ c.CACHE_TTL_SECONDS = 300}
  /\ now = 0
  /\ cache = EmptyCache
  /\ seq = 0
  /\ pc = [p \in Procs |-> "idle"]
  /\ call = [p \in Procs |-> NoCall]
  /\ stage = [p \in Procs |-> "none"]
  /\ sent = [p \in Procs |-> <<>>]
  /\ ret = [p \in Procs |-> NoRet]
  /\ resp = [p \in Procs |-> NoResp]
  /\ snap = [p \in Procs |-> EmptyCache]
  /\ calls = 0
  /\ ticks = 0
  /\ enum = NoEnum
  /\ tracker \in [issues : IssueLists, projectId : {3}, groupBy : GroupBys, period : Periods]
  /\ results = <<>>

\* the rest of the handler once getIssues has ended as r
EndGroup(p, r) ==
  LET end == IF r.ret.kind = "value"
             THEN GroupStatistics(IssuesOf(r.ret.data), tracker.groupBy, tracker.period, now)
             ELSE r.ret
      answer == WithMantisConfigured("get_issue_statistics", TRUE, end)
  IN /\ pc' = [pc EXCEPT ![p] = "done"]
     /\ stage' = [stage EXCEPT ![p] = "none"]
     /\ ret' = [ret EXCEPT ![p] = end]
     /\ resp' = [resp EXCEPT ![p] = answer]
     /\ results' = Append(results, [ret |-> end, resp |-> answer, sent |-> r.sent,
                                    cached |-> r.ret.cached, at |-> now])

\* get_issue_statistics starts and runs up to the await in cachedRequest
InvokeGroup(p) ==
  /\ pc[p] \in {"idle", "done"}
  /\ calls < MaxCalls
  /\ LET r == GetIssues(<<<<"projectId", tracker.projectId>>, <<"pageSize", STATS_PAGE_SIZE>>>>,
                        cache, <<>>)
     IN /\ call' = [call EXCEPT ![p] = [NoCall EXCEPT !.op = "get_issue_statistics"]]
        /\ snap' = [snap EXCEPT ![p] = cache]
        /\ calls' = calls + 1
        /\ cache' = r.cache
        /\ sent' = [sent EXCEPT ![p] = r.sent]
        /\ IF r.pc = "wait"
           THEN /\ pc' = [pc EXCEPT ![p] = "wait"]
                /\ stage' = [stage EXCEPT ![p] = r.stage]
                /\ ret' = [ret EXCEPT ![p] = NoRet]
                /\ resp' = [resp EXCEPT ![p] = NoResp]
                /\ seq' = seq + 1
                /\ UNCHANGED results
           ELSE /\ seq' = seq
                /\ EndGroup(p, r)
  /\ UNCHANGED <<config, now, ticks, enum, tracker>>

\* the tracker answers the request for the issue list
RespondGroup(p, o) ==
  /\ pc[p] = "wait"
  /\ LET r == CachedRequestResume(Last(sent[p]), o, cache, WithAnswer(sent[p], o))
     IN /\ cache' = r.cache
        /\ sent' = [sent EXCEPT ![p] = r.sent]
        /\ EndGroup(p, r)
  /\ UNCHANGED <<config, now, seq, call, snap, calls, ticks, enum, tracker>>

NextGroup ==
  \/ \E p \in Procs : InvokeGroup(p)
  \/ \E p \in Procs, o \in {Success(TRUE), CHOOSE f \in Failures : f.status = 500} :
       RespondGroup(p, o)
  \/ Tick

SpecGroup == InitGroup /\ [][NextGroup]_vars

\* ------------------------------------------- get_assignment_statistics
\* String.prototype.toLowerCase, on the letters the status names use
LowerChar(ch) ==
  CASE ch = "C" -> "c" [] ch = "L" -> "l" [] ch = "O" -> "o" [] ch = "S" -> "s"
    [] ch = "E" -> "e" [] ch = "D" -> "d" [] ch = "R" -> "r" [] ch = "V" -> "v"
    [] ch = "N" -> "n" [] ch = "W" -> "w" [] OTHER -> ch

ToLowerCase(str) == [i \in DOMAIN str |-> LowerChar(str[i])]

\* String.prototype.includes
Includes(str, sub) ==
  \E i \in 0..(Len(str) - Len(sub)) : SubSeq(str, i + 1, i + Len(sub)) = sub

\* a test that looks for the lower-case words in the name as it is
IsClosedCaseSensitive(name) ==
  \/ Includes(name, <<"c", "l", "o", "s", "e", "d">>)
  \/ Includes(name, <<"r", "e", "s", "o", "l", "v", "e", "d">>)

\* issue.status.name.toLowerCase().includes('closed') || ...includes('resolved')
IsClosed(name) ==
  \/ Includes(ToLowerCase(name), <<"c", "l", "o", "s", "e", "d">>)
  \/ Includes(ToLowerCase(name), <<"r", "e", "s", "o", "l", "v", "e", "d">>)

\* params.statusFilter?.length ? issues.filter(...) : issues
StatusFiltered(issues, statusFilter) ==
  IF Len(statusFilter) > 0
  THEN SelectSeq(issues, LAMBDA issue : \E k \in DOMAIN statusFilter : statusFilter[k] = issue.status.id)
  ELSE issues

\* the truthy handler ids of all the issues, repeated ones included
RECURSIVE HandlerIdsRepeated(_)
HandlerIdsRepeated(filtered) ==
  IF filtered = <<>> THEN <<>>
  ELSE LET before == HandlerIdsRepeated(SubSeq(filtered, 1, Len(filtered) - 1))
           h == filtered[Len(filtered)].handler.id
       IN IF Truthy(h) THEN Append(before, h) ELSE before

\* the Set handlerIds in insertion order: the truthy handler ids, each once
RECURSIVE HandlerIds(_)
HandlerIds(filtered) ==
  IF filtered = <<>> THEN <<>>
  ELSE LET before == HandlerIds(SubSeq(filtered, 1, Len(filtered) - 1))
           h == filtered[Len(filtered)].handler.id
       IN IF Truthy(h) /\ ~\E k \in DOMAIN before : before[k] = h
          THEN Append(before, h) ELSE before

\* the user the tracker answers GET /users/<id> with: the user of that id
UserOf(handlerId) == [id |-> handlerId, name |-> <<"user", handlerId>>, email |-> ""]

NewStat(user) ==
  [id |-> user.id, name |-> user.name, email |-> user.email,
   issueCount |-> 0, openIssues |-> 0, closedIssues |-> 0, issues |-> <<>>]

\* Map.prototype.set on a map kept as the sequence of its values in insertion order
MapSet(map, stat) ==
  IF \E k \in DOMAIN map : map[k].id = stat.id
  THEN [k \in DOMAIN map |-> IF map[k].id = stat.id THEN stat ELSE map[k]]
  ELSE Append(map, stat)

\* userMap after the lookups of the first n handler ids
RECURSIVE UserMap(_, _)
UserMap(handlerIds, n) ==
  IF n = 0 THEN <<>> ELSE MapSet(UserMap(handlerIds, n - 1), NewStat(UserOf(handlerIds[n])))

NoTally == [users |-> <<>>, unassignedCount |-> 0, unassignedIssues |-> <<>>]

\* one round of the forEach that counts
TallyIssue(st, issue, includeUnassigned) ==
  IF Truthy(issue.handler.id)
  THEN [st EXCEPT !.users =
          [k \in DOMAIN st.users |->
             IF st.users[k].id # issue.handler.id THEN st.users[k]
             ELSE [st.users[k] EXCEPT
                     !.issueCount = @ + 1,
                     !.issues = Append(@, issue.id),
                     !.closedIssues = IF IsClosed(issue.status.name) THEN @ + 1 ELSE @,
                     !.openIssues = IF IsClosed(issue.status.name) THEN @ ELSE @ + 1]]]
  ELSE IF includeUnassigned
  THEN [st EXCEPT !.unassignedCount = @ + 1, !.unassignedIssues = Append(@, issue.id)]
  ELSE st

RECURSIVE Tally(_, _, _)
Tally(filtered, users, includeUnassigned) ==
  IF filtered = <<>> THEN [NoTally EXCEPT !.users = users]
  ELSE TallyIssue(Tally(SubSeq(filtered, 1, Len(filtered) - 1), users, includeUnassigned),
                  filtered[Len(filtered)], includeUnassigned)

\* Array.prototype.sort with (a, b) => b.issueCount - a.issueCount: stable
RECURSIVE SortByCount(_)
SortByCount(stats) ==
  IF stats = <<>> THEN <<>>
  ELSE LET front == SortByCount(SubSeq(stats, 1, Len(stats) - 1))
           x == stats[Len(stats)]
           n == Cardinality({k \in DOMAIN front : front[k].issueCount >= x.issueCount})
       IN SubSeq(front, 1, n) \o <<x>> \o SubSeq(front, n + 1, Len(front))

Unassigned(count, ids) ==
  [id |-> 0, name |-> <<"Unassigned">>, email |-> "", issueCount |-> count,
   openIssues |-> count, closedIssues |-> 0, issues |-> ids]

\* the action of get_assignment_statistics once every handler has been looked up
AssignmentStatistics(issues, statusFilter, includeUnassigned) ==
  LET filtered == StatusFiltered(issues, statusFilter)
      handlerIds == HandlerIds(filtered)
      t == Tally(filtered, UserMap(handlerIds, Len(handlerIds)), includeUnassigned)
      sorted == SortByCount(SelectSeq(t.users, LAMBDA stat : stat.issueCount > 0))
  IN [totalIssues |-> Len(filtered),
      assignedIssues |-> Len(filtered) - t.unassignedCount,
      unassignedIssues |-> t.unassignedCount,
      userStatistics |->
        IF includeUnassigned /\ t.unassignedCount > 0
        THEN Append(sorted, Unassigned(t.unassignedCount, t.unassignedIssues))
        ELSE sorted]

\* the statuses, handlers and ids of the issues the tracker may hold; a handler
\* id of 0 stands for an issue without handler
WireStatuses ==
  {[id |-> 10, name |-> <<"n", "e", "w">>],
   [id |-> 80, name |-> <<"R", "e", "s", "o", "l", "v", "e", "d">>],
   [id |-> 90, name |-> <<"C", "L", "O", "S", "E", "D">>]}
WireHandlers == {0, 7, 8}
WireIds == <<5, 3, 9>>

\* the lists of fewer issues than there are ids, and the lists of as many
\* issues in which every issue after the first has the first of the statuses
AssignedIssueLists ==
  UNION {{[i \in 1..n |-> [id |-> WireIds[i], handler |-> [id |-> o[i][1]], status |-> o[i][2]]] :
            o \in {x \in [1..n -> WireHandlers \X WireStatuses] :
                     n = Len(WireIds) => \A i \in 2..n : x[i][2].id = 10}} :
         n \in 0..Len(WireIds)}

StatusFilters == {<<>>, <<10, 80>>}

InitAssign ==
  /\ config \in {c \in Configs : c.MANTIS_API_KEY /\ c.CACHE_TTL_SECONDS = 300}
  /\ now = 0
  /\ cache = EmptyCache
  /\ seq = 0
  /\ pc = [p \in Procs |-> "idle"]
  /\ call = [p \in Procs |-> NoCall]
  /\ stage = [p \in Procs |-> "none"]
  /\ sent = [p \in Procs |-> <<>>]
  /\ ret = [p \in Procs |-> NoRet]
  /\ resp = [p \in Procs |-> NoResp]
  /\ snap = [p \in Procs |-> EmptyCache]
  /\ calls = 0
  /\ ticks = 0
  /\ enum = NoEnum
  /\ tracker \in [issues : AssignedIssueLists, projectId : {3},
                  includeUnassigned : BOOLEAN, statusFilter : StatusFilters]
  /\ results = <<>>

\* the for loop over handlerIds from its k-th round on, up to the first lookup
\* that has to wait for the tracker or fails
RECURSIVE LookupFrom(_, _, _, _)
LookupFrom(handlerIds, k, c, log) ==
  IF k > Len(handlerIds) THEN [step |-> Returned(c, log, NoValue, FALSE), at |-> k]
  ELSE LET r == GetUser(handlerIds[k], c, log)
       IN IF r.pc = "wait" \/ r.ret.kind = "throw" THEN [step |-> r, at |-> k]
          ELSE LookupFrom(handlerIds, k + 1, r.cache, r.sent)

\* the handler from the k-th lookup on; call[p].id is the round of the loop
RunAssign(p, k, c, log) ==
  LET filtered == StatusFiltered(tracker.issues, tracker.statusFilter)
      l == LookupFrom(HandlerIds(filtered), k, c, log)
      r == l.step
      end == IF r.ret.kind = "throw" THEN r.ret
             ELSE ActionValue(AssignmentStatistics(tracker.issues, tracker.statusFilter,
                                                   tracker.includeUnassigned))
      answer == WithMantisConfigured("get_assignment_statistics", TRUE, end)
  IN /\ cache' = r.cache
     /\ sent' = [sent EXCEPT ![p] = r.sent]
     /\ call' = [call EXCEPT ![p] = Invocation("get_assignment_statistics", l.at, NoValue, "")]
     /\ IF r.pc = "wait"
        THEN /\ pc' = [pc EXCEPT ![p] = "wait"]
             /\ stage' = [stage EXCEPT ![p] = r.stage]
             /\ ret' = [ret EXCEPT ![p] = NoRet]
             /\ resp' = [resp EXCEPT ![p] = NoResp]
             /\ seq' = seq + 1
             /\ UNCHANGED results
        ELSE /\ pc' = [pc EXCEPT ![p] = "done"]
             /\ stage' = [stage EXCEPT ![p] = "none"]
             /\ ret' = [ret EXCEPT ![p] = end]
             /\ resp' = [resp EXCEPT ![p] = answer]
             /\ seq' = seq
             /\ results' = Append(results, [ret |-> end, resp |-> answer, sent |-> r.sent,
                                            at |-> now])

\* get_assignment_statistics starts and runs up to its first await: that of
\* getIssues or, when the issue list is served from the cache, that of a lookup
InvokeAssign(p) ==
  /\ pc[p] \in {"idle", "done"}
  /\ calls < MaxCalls
  /\ LET r == GetIssues(<<<<"projectId", tracker.projectId>>, <<"pageSize", STATS_PAGE_SIZE>>>>,
                        cache, <<>>)
     IN /\ snap' = [snap EXCEPT ![p] = cache]
        /\ calls' = calls + 1
        /\ IF r.pc = "wait"
           THEN /\ call' = [call EXCEPT ![p] =
                              Invocation("get_assignment_statistics", 0, NoValue, "")]
                /\ cache' = r.cache
                /\ sent' = [sent EXCEPT ![p] = r.sent]
                /\ pc' = [pc EXCEPT ![p] = "wait"]
                /\ stage' = [stage EXCEPT ![p] = r.stage]
                /\ ret' = [ret EXCEPT ![p] = NoRet]
                /\ resp' = [resp EXCEPT ![p] = NoResp]
                /\ seq' = seq + 1
                /\ UNCHANGED results
           ELSE RunAssign(p, 1, r.cache, r.sent)
  /\ UNCHANGED <<config, now, ticks, enum, tracker>>

\* the tracker answers the request the handler waits for: the issue list or a
\* user; a failure ends the handler, a success lets it run to its next await
RespondAssign(p, o) ==
  /\ pc[p] = "wait"
  /\ LET r == CachedRequestResume(Last(sent[p]), o, cache, WithAnswer(sent[p], o))
     IN IF r.ret.kind = "throw"
        THEN /\ cache' = r.cache
             /\ sent' = [sent EXCEPT ![p] = r.sent]
             /\ pc' = [pc EXCEPT ![p] = "done"]
             /\ stage' = [stage EXCEPT ![p] = "none"]
             /\ ret' = [ret EXCEPT ![p] = r.ret]
             /\ resp' = [resp EXCEPT ![p] =
                           WithMantisConfigured("get_assignment_statistics", TRUE, r.ret)]
             /\ results' = Append(results,
                  [ret |-> r.ret, sent |-> r.sent, at |-> now,
                   resp |-> WithMantisConfigured("get_assignment_statistics", TRUE, r.ret)])
             /\ UNCHANGED <<seq, call>>
        ELSE RunAssign(p, call[p].id + 1, r.cache, r.sent)
  /\ UNCHANGED <<config, now, snap, calls, ticks, enum, tracker>>

NextAssign ==
  \/ \E p \in Procs : InvokeAssign(p)
  \/ \E p \in Procs, o \in {Success(TRUE), CHOOSE f \in Failures : f.status = 500} :
       RespondAssign(p, o)

SpecAssign == InitAssign /\ [][NextAssign]_vars

\* ------------------------------------------------------- searchIssues
SOAP_DEFAULT_PAGE_SIZE == 50
SOAP_DEFAULT_PAGE == 1

\* str.replace(/ch/g, entity) on a string kept as a sequence of characters
RECURSIVE ReplaceAll(_, _, _)
ReplaceAll(str, ch, entity) ==
  IF str = <<>> THEN <<>>
  ELSE (IF Head(str) = ch THEN entity ELSE <<Head(str)>>) \o ReplaceAll(Tail(str), ch, entity)

\* an escape that replaces & after the other four characters
XmlEscapeAmpLast(str) ==
  LET lt == ReplaceAll(str, "<", <<"&", "l", "t", ";">>)
      gt == ReplaceAll(lt, ">", <<"&", "g", "t", ";">>)
      quot == ReplaceAll(gt, "\"", <<"&", "q", "u", "o", "t", ";">>)
      apos == ReplaceAll(quot, "'", <<"&", "a", "p", "o", "s", ";">>)
  IN ReplaceAll(apos, "&", <<"&", "a", "m", "p", ";">>)

\* xmlEscape: the five replacements, & first
XmlEscape(str) ==
  LET amp == ReplaceAll(str, "&", <<"&", "a", "m", "p", ";">>)
      lt == ReplaceAll(amp, "<", <<"&", "l", "t", ";">>)
      gt == ReplaceAll(lt, ">", <<"&", "g", "t", ";">>)
      quot == ReplaceAll(gt, "\"", <<"&", "q", "u", "o", "t", ";">>)
  IN ReplaceAll(quot, "'", <<"&", "a", "p", "o", "s", ";">>)

\* filterFields: an element per truthy parameter, in the order of the tests
SoapFilter(params) ==
  (IF params.search # <<>> THEN << <<"search", XmlEscape(params.search)>> >> ELSE <<>>)
  \o (IF Truthy(params.projectId) THEN << <<"project_id", params.projectId>> >> ELSE <<>>)
  \o (IF Truthy(params.statusId) THEN << <<"status_id", params.statusId>> >> ELSE <<>>)
  \o (IF Truthy(params.handlerId) THEN << <<"handler_id", params.handlerId>> >> ELSE <<>>)
  \o (IF Truthy(params.reporterId) THEN << <<"reporter_id", params.reporterId>> >> ELSE <<>>)
  \o (IF params.sort # <<>> THEN << <<"sort", XmlEscape(params.sort)>> >> ELSE <<>>)
  \o (IF params.sortDirection # <<>>
      THEN << <<"sort_direction", XmlEscape(params.sortDirection)>> >> ELSE <<>>)

\* soapBody: the password, the filter, the 0-based page number and the page
\* size; apiKey is config.MANTIS_API_KEY || ''
SoapBody(params, apiKey) ==
  [password |-> XmlEscape(apiKey),
   filter |-> SoapFilter(params),
   page_number |-> (IF Truthy(params.page) THEN params.page ELSE SOAP_DEFAULT_PAGE) - 1,
   per_page |-> IF Truthy(params.pageSize) THEN params.pageSize ELSE SOAP_DEFAULT_PAGE_SIZE]

\* Number(x) || 0 for a leaf of the parsed response, kept as the sequence of
\* the characters of its text: <<>> is an absent or empty leaf, and a text that
\* is not a decimal numeral gives NaN, which is falsy
RECURSIVE NumberOr0(_)
NumberOr0(text) ==
  IF text = <<>> THEN 0
  ELSE LET last == text[Len(text)]
           digit == CASE last = "0" -> 0 [] last = "1" -> 1 [] last = "2" -> 2 [] last = "3" -> 3
                      [] last = "4" -> 4 [] last = "5" -> 5 [] last = "6" -> 6 [] last = "7" -> 7
                      [] last = "8" -> 8 [] last = "9" -> 9 [] OTHER -> NoValue
           front == SubSeq(text, 1, Len(text) - 1)
           isNumeral == \A i \in DOMAIN text :
                          text[i] \in {"0", "1", "2", "3", "4", "5", "6", "7", "8", "9"}
       IN IF isNumeral THEN 10 * NumberOr0(front) + digit ELSE 0

\* { id: Number(x?.id) || 0, name: x?.name || '' } for a sub-object x
MapSub(sub) ==
  [present |-> TRUE, id |-> IF sub.present THEN NumberOr0(sub.id) ELSE 0,
   name |-> IF sub.present THEN sub.name ELSE <<>>]

AbsentSub == [present |-> FALSE, id |-> NoValue, name |-> <<>>]

\* a mapping that fills an absent sub-object with zeros
MapOptionalZeroFilled(sub) == MapSub(sub)

\* item.x ? { id: Number(item.x.id) || 0, name: item.x.name || '' } : undefined
MapOptional(sub) == IF sub.present THEN MapSub(sub) ELSE AbsentSub

\* mapSoapIssue; custom_fields is absent, one object or an array
MapSoapIssue(item) ==
  [id |-> NumberOr0(item.id),
   summary |-> item.summary,
   status |-> MapSub(item.status),
   project |-> MapSub(item.project),
   category |-> [id |-> 0, name |-> item.category],
   reporter |-> MapSub(item.reporter),
   handler |-> MapOptional(item.handler),
   priority |-> MapOptional(item.priority),
   severity |-> MapOptional(item.severity),
   custom_fields |->
     [present |-> item.custom_fields.kind # "absent",
      items |-> [k \in DOMAIN item.custom_fields.items |->
                   [field |-> MapSub(item.custom_fields.items[k].field),
                    value |-> item.custom_fields.items[k].value]]],
   created_at |-> item.date_submitted,
   updated_at |-> item.last_updated]

\* a search that takes a response without result for an empty one, fault or not
SearchIssuesIgnoringFault(body) ==
  IF body.result.kind \in {"absent", "empty"} THEN ActionValue(<<>>)
  ELSE ActionValue([k \in DOMAIN body.result.items |-> MapSoapIssue(body.result.items[k])])

\* searchIssues from the parsed response on; body is parsed?.Envelope?.Body, its
\* result is absent, present and falsy ("empty"), one object or an array, and
\* its Fault is absent or an object
SearchIssuesParsed(body) ==
  IF body.result.kind \in {"absent", "empty"}
  THEN IF body.fault.present
       THEN [kind |-> "throw", data |-> NoValue, cached |-> FALSE,
             err |-> MantisApiError(<<"SOAP fault: ",
                                      IF body.fault.faultstring # <<>>
                                      THEN body.fault.faultstring
                                      ELSE <<"Unknown error">>>>, NoValue, NoValue)]
       ELSE ActionValue(<<>>)
  ELSE ActionValue([k \in DOMAIN body.result.items |-> MapSoapIssue(body.result.items[k])])

\* the catch of searchIssues for a failed POST: error.message is that of axios
SoapFailure(o) ==
  [kind |-> "throw", data |-> NoValue, cached |-> FALSE,
   err |-> MantisApiError(<<"SOAP search failed: ", <<"axios", o.status>>>>, NoValue, NoValue)]

\* the parsed responses of the tracker and the parameters of the search
\* the leaves are absent, a numeral or another text; the required sub-objects
\* of an item are alike, and so are the optional ones
WireLeaves == {<<>>, <<"4", "2">>, <<"x", "7">>}
WireSubs == {AbsentSub} \cup {[present |-> TRUE, id |-> v, name |-> <<"n">>] : v \in WireLeaves}
WireCustomFields ==
  {[kind |-> "absent", items |-> <<>>]}
  \cup {[kind |-> "object", items |-> <<[field |-> f, value |-> <<>>]>>] : f \in WireSubs}
  \cup {[kind |-> "array", items |-> <<[field |-> f, value |-> <<"v">>], [field |-> f, value |-> <<>>]>>] :
           f \in {x \in WireSubs : x.present /\ x.id = <<"x", "7">>}}
WireItems ==
  {[id |-> v, summary |-> <<"s">>, category |-> <<>>, status |-> req, project |-> req,
    reporter |-> req, handler |-> opt, priority |-> opt, severity |-> opt,
    custom_fields |-> cf, date_submitted |-> <<>>, last_updated |-> <<>>] :
     v \in WireLeaves, req \in WireSubs, opt \in WireSubs, cf \in WireCustomFields}
SoapResults ==
  {[kind |-> k, items |-> <<>>] : k \in {"absent", "empty", "array"}}
  \cup {[kind |-> "object", items |-> <<a>>] : a \in WireItems}
  \cup {[kind |-> "array", items |-> <<a, b>>] :
           a, b \in {i \in WireItems : ~i.status.present /\ ~i.handler.present
                                         /\ i.custom_fields.kind = "absent"}}
SoapFaults ==
  {[present |-> FALSE, faultstring |-> <<>>], [present |-> TRUE, faultstring |-> <<>>],
   [present |-> TRUE, faultstring |-> <<"d", "e", "n", "i", "e", "d">>]}
SearchParams ==
  [search : {<<>>, <<"a", "&", "<", ">">>, <<"&", "l", "t", ";">>}, projectId : {0, 3},
   statusId : {0}, handlerId : {0}, reporterId : {0}, sort : {<<>>, <<"\"", "i", "d">>},
   sortDirection : {<<>>, <<"A", "S", "C">>}, page : {0, 2}, pageSize : {0}]

\* the text of the configured API key
ApiKeys == {<<"k", "'", "&", "\"">>}

InitSoap ==
  /\ config \in {c \in Configs : c.MANTIS_API_KEY /\ c.CACHE_ENABLED /\ c.CACHE_TTL_SECONDS = 300}
  /\ now = 0
  /\ cache = EmptyCache
  /\ seq = 0
  /\ pc = [p \in Procs |-> "idle"]
  /\ call = [p \in Procs |-> NoCall]
  /\ stage = [p \in Procs |-> "none"]
  /\ sent = [p \in Procs |-> <<>>]
  /\ ret = [p \in Procs |-> NoRet]
  /\ resp = [p \in Procs |-> NoResp]
  /\ snap = [p \in Procs |-> EmptyCache]
  /\ calls = 0
  /\ ticks = 0
  /\ enum = NoEnum
  /\ tracker \in [params : SearchParams, apiKey : ApiKeys,
                  body : [result : SoapResults, fault : SoapFaults]]
  /\ results = <<>>

\* searchIssues up to the await of axios.post
InvokeSoap(p) ==
  /\ pc[p] = "idle"
  /\ call' = [call EXCEPT ![p] = [NoCall EXCEPT !.op = "searchIssues"]]
  /\ snap' = [snap EXCEPT ![p] = cache]
  /\ calls' = calls + 1
  /\ sent' = [sent EXCEPT ![p] = <<Request("POST", <<"/api/soap/mantisconnect.php", <<>>>>,
                                            NoKey, SoapBody(tracker.params, tracker.apiKey))>>]
  /\ pc' = [pc EXCEPT ![p] = "wait"]
  /\ stage' = [stage EXCEPT ![p] = "soap"]
  /\ seq' = seq + 1
  /\ UNCHANGED <<config, now, cache, ticks, enum, tracker, ret, resp, results>>

\* searchIssues from the answer on: the tracker's response is parsed, a failed
\* POST is wrapped
RespondSoap(p, o) ==
  /\ pc[p] = "wait"
  /\ LET end == IF o.ok THEN SearchIssuesParsed(tracker.body) ELSE SoapFailure(o)
     IN /\ sent' = [sent EXCEPT ![p] = WithAnswer(sent[p], o)]
        /\ pc' = [pc EXCEPT ![p] = "done"]
        /\ stage' = [stage EXCEPT ![p] = "none"]
        /\ ret' = [ret EXCEPT ![p] = end]
        /\ results' = Append(results, [ret |-> end, sent |-> WithAnswer(sent[p], o), at |-> now])
  /\ UNCHANGED <<config, now, cache, seq, call, snap, calls, ticks, enum, tracker, resp>>

NextSoap ==
  \/ \E p \in Procs : InvokeSoap(p)
  \/ \E p \in Procs, o \in {Success(TRUE), CHOOSE f \in Failures : f.status = 500} :
       RespondSoap(p, o)

SpecSoap == InitSoap /\ [][NextSoap]_vars

\* ------------------------------------------- overlapping invocations
\* two tool invocations in progress at once: each runs from await to await,
\* and the runs of the two interleave
RaceProcs == {1, 2}

RaceCalls ==
  {Invocation("getIssueById", 1, NoValue, ""), Invocation("createIssue", NoValue, NoValue, "")}

InitRace ==
  /\ config \in {c \in Configs : c.MANTIS_API_KEY /\ c.CACHE_TTL_SECONDS = 300}
  /\ now = 0
  /\ cache = EmptyCache
  /\ seq = 0
  /\ pc = [p \in RaceProcs |-> "idle"]
  /\ call = [p \in RaceProcs |-> NoCall]
  /\ stage = [p \in RaceProcs |-> "none"]
  /\ sent = [p \in RaceProcs |-> <<>>]
  /\ ret = [p \in RaceProcs |-> NoRet]
  /\ resp = [p \in RaceProcs |-> NoResp]
  /\ snap = [p \in RaceProcs |-> EmptyCache]
  /\ calls = 0
  /\ ticks = 0
  /\ enum = NoEnum
  /\ tracker = NoValue
  /\ results = <<>>

NextRace ==
  \/ \E p \in RaceProcs, cl \in RaceCalls : Invoke(p, cl)
  \/ \E p \in RaceProcs, o \in {Success(TRUE), CHOOSE f \in Failures : f.status = 500} :
       Respond(p, o)
  \/ Tick

SpecRace == InitRace /\ [][NextRace]_vars

\* ================================================================ properties
\* invocation p has run and ended (returned or thrown)
Ended(p) == pc[p] = "done" /\ ret[p].kind # "none"

Indices(p) == DOMAIN sent[p]

\* the read calls that go through cachedRequest
CachedReads ==
  {cl \in ReadCalls : cl.op # "getUserByUsername" /\ ~(cl.op = "getUser" /\ ~Truthy(cl.id))}

\* the cache key of a read call: the key of the request it sends on an empty cache
ReadKey(cl) == Last(Begin(cl, EmptyCache, <<>>).sent).key

IsMutation(req) == req.method \in {"POST", "PATCH"}

IsRefetch(req, issueId) == req.method = "GET" /\ req.url = <<"/issues/", <<issueId>>>>

C2_SecondReadServedFromCache ==
  \A p \in Procs :
    (/\ pc[p] # "idle" /\ call[p] \in CachedReads
     /\ (isMantisConfigured \/ ~IsTool(call[p].op))
     /\ config.CACHE_ENABLED
     /\ ReadKey(call[p]) \in DOMAIN snap[p]
     /\ now - snap[p][ReadKey(call[p])].timestamp < config.CACHE_TTL_SECONDS * 1000) =>
      /\ pc[p] = "done"
      /\ sent[p] = <<>>
      /\ ret[p].kind = "value"
      /\ ret[p].cached
      /\ ret[p].data = snap[p][ReadKey(call[p])].data

\* C2 happens: a second read served from an entry older than 0 ms, with a time
\* to live it has not used up
C2_Witness ==
  \E p \in Procs :
    /\ Ended(p) /\ call[p] \in CachedReads /\ config.CACHE_ENABLED
    /\ ReadKey(call[p]) \in DOMAIN snap[p]
    /\ snap[p][ReadKey(call[p])].timestamp < now
    /\ ret[p].cached
    /\ sent[p] = <<>>

\* C3, as stated: with CACHE_ENABLED false every read operation that gets as
\* far as the cache sends exactly one request and is not served from the cache.
\* Violated by getUserByUsername, which never looks at CACHE_ENABLED.
C3_DisabledCacheAlwaysFetches ==
  \A p \in Procs :
    (/\ Ended(p) /\ ~config.CACHE_ENABLED
     /\ call[p].op \in ReadOps
     /\ ~(call[p].op = "getUser" /\ ~Truthy(call[p].id))) =>
      /\ Len(sent[p]) = 1
      /\ ~ret[p].cached

\* C4, as stated: when get_users returns, the ten latest probes in a row were
\* answered 404.  Violated when a probe fails otherwise in between: the
\* counter of misses is neither reset nor is the id advanced.
C4_StopsAtTenConsecutive404 ==
  \A p \in Procs :
    (pc[p] = "done" /\ call[p].op = "get_users" /\ ret[p].kind = "value") =>
      enum.run404 = NOT_FOUND_LIMIT

\* C5: in updateIssue and changeIssueStatus, once the PATCH has failed or has
\* been answered without the issue, the one request that follows is a GET of
\* that issue, no entry from before the operation is left in the cache, and the
\* operation returns what that GET fetched, or throws the GET's own error.
C5_PatchFallsBackToRefetch ==
  \A p \in Procs :
    \A i \in Indices(p) :
      (/\ call[p].op \in {"updateIssue", "changeIssueStatus"}
       /\ sent[p][i].method = "PATCH"
       /\ sent[p][i].out # Pending
       /\ ~(sent[p][i].out.ok /\ sent[p][i].out.echo)) =>
        /\ Len(sent[p]) = i + 1
        /\ IsRefetch(sent[p][i + 1], call[p].id)
        /\ CacheIds(cache) \cap CacheIds(snap[p]) = {}
        /\ pc[p] = "done" =>
             IF sent[p][i + 1].out.ok
             THEN /\ ret[p].kind = "value"
                  /\ ret[p].data = sent[p][i + 1].id
                  /\ ~ret[p].cached
             ELSE /\ ret[p].kind = "throw"
                  /\ ret[p].err = ResponseInterceptor(sent[p][i + 1].out, sent[p][i + 1].id)

\* C5 happens: the PATCH of an issue that was in the cache has failed, and the
\* operation has returned the re-fetched issue
C5_Witness ==
  \E p \in Procs :
    /\ Ended(p) /\ call[p].op \in {"updateIssue", "changeIssueStatus"}
    /\ Key("issue-", <<call[p].id>>) \in DOMAIN snap[p]
    /\ \E i \in Indices(p) : sent[p][i].method = "PATCH" /\ ~sent[p][i].out.ok
    /\ ret[p].kind = "value"

C7_NoteBeforeStatusPatch ==
  \A p \in Procs :
    (call[p].op = "changeIssueStatus" /\ sent[p] # <<>>) =>
      IF Truthy(call[p].note)
      THEN /\ sent[p][1].method = "POST"
           /\ sent[p][1].url = <<"/issues/notes", <<call[p].id>>>>
           /\ sent[p][1].body = "public"
           /\ \A i \in Indices(p) : sent[p][i].method = "PATCH" => (i = 2 /\ sent[p][1].out.ok)
           /\ \A i \in Indices(p) : sent[p][i].method = "POST" => i = 1
           /\ (sent[p][1].out # Pending /\ ~sent[p][1].out.ok) =>
                /\ Len(sent[p]) = 1
                /\ pc[p] = "done"
                /\ ret[p].kind = "throw"
                /\ ret[p].err = ResponseInterceptor(sent[p][1].out, sent[p][1].id)
      ELSE /\ sent[p][1].method = "PATCH"
           /\ \A i \in Indices(p) : sent[p][i].method # "POST"

\* C7 happens: a status change with a note has sent its PATCH
C7_Witness ==
  \E p \in Procs :
    /\ call[p].op = "changeIssueStatus" /\ Truthy(call[p].note)
    /\ Len(sent[p]) >= 2
    /\ sent[p][2].method = "PATCH"

\* C8: the facade answers every tool invocation with an envelope: one flagged
\* isError and carrying an error message when the tracker is not configured or
\* the action threw (a MantisApiError with or without status, an Error, or
\* anything else), and one not flagged, carrying the result, when the action
\* returned.  The message is empty only when it is the empty message of a
\* thrown Error.
C8_FacadeAlwaysAnswers ==
  \A p \in Procs :
    pc[p] = "done" =>
      /\ resp[p].isError = (~isMantisConfigured \/ ret[p].kind = "throw")
      /\ resp[p].text = IF resp[p].isError THEN "error" ELSE "result"
      /\ (resp[p].isError /\ resp[p].error = <<"", "">>) =>
           (isMantisConfigured /\ ret[p].err.name = "Error" /\ ret[p].err.message = "")

\* C8 happens: the action threw a value that is not an Error, and the facade
\* has answered
C8_Witness ==
  \E p \in Procs :
    /\ pc[p] = "done" /\ isMantisConfigured
    /\ ret[p].kind = "throw" /\ ret[p].err.name = "notAnError"
    /\ resp[p].isError

\* C9: the failure of the request an operation ended on is thrown as a
\* MantisApiError whose statusCode is the HTTP status (above 0), with the body
\* of the response, when there was a response; 0 when a request was made but
\* not answered; and absent when no request was made.
C9_StatusCodeTellsFailuresApart ==
  \A p \in Procs :
    (Ended(p) /\ sent[p] # <<>> /\ ~Last(sent[p]).out.ok) =>
      /\ ret[p].kind = "throw"
      /\ ret[p].err.name = "MantisApiError"
      /\ LET o == Last(sent[p]).out
             e == ret[p].err
         IN  /\ o.hasResponse =>
                  e.statusCode = o.status /\ e.statusCode > 0 /\ e.response = Last(sent[p]).id
             /\ (~o.hasResponse /\ o.hasRequest) => e.statusCode = 0
             /\ (~o.hasResponse /\ ~o.hasRequest) => e.statusCode = NoValue

\* C9 happens: an operation has ended on a request that got no response
C9_Witness ==
  \E p \in Procs :
    /\ Ended(p) /\ sent[p] # <<>>
    /\ ~Last(sent[p]).out.hasResponse /\ Last(sent[p]).out.hasRequest
    /\ ret[p].err.statusCode = 0

\* C10: getUser with a falsy id ends at once throwing a MantisApiError without
\* status code; it has sent no request, was not served from the cache, and the
\* cache is as it was.
C10_GetUserRejectsFalsyId ==
  \A p \in Procs :
    (pc[p] # "idle" /\ call[p].op = "getUser" /\ ~Truthy(call[p].id)) =>
      /\ pc[p] = "done"
      /\ ret[p].kind = "throw"
      /\ ret[p].err.name = "MantisApiError"
      /\ ret[p].err.statusCode = NoValue
      /\ sent[p] = <<>>
      /\ ~ret[p].cached
      /\ cache = snap[p]

\* C10 happens: getUser(0) has ended, on a filled cache
C10_Witness ==
  \E p \in Procs :
    /\ Ended(p) /\ call[p].op = "getUser" /\ call[p].id = 0
    /\ DOMAIN snap[p] # {}

\* the fields of a parameter object, whatever their order
FieldsOf(params) == {params[i] : i \in DOMAIN params}

\* C11, as stated: the get_issues tool returns a serialization of length
\* exactly 102400 uncompressed and one of length 102401 compressed, and the
\* envelope's originalSize is the length of the serialization.
C11_ThresholdUncompressed ==
  \A p \in Procs :
    (Ended(p) /\ call[p].via = "tool" /\ ret[p].kind = "value") =>
      /\ tracker.size = 102400 => ~ret[p].data.compressed
      /\ tracker.size = 102401 => ret[p].data.compressed
      /\ ret[p].data.compressed => ret[p].data.originalSize = tracker.size

\* C11, amended: the get_issues tool returns a serialization shorter than
\* 102400 as it is, and one of length 102400 or more as the compressed
\* envelope, whose originalSize is the length of the serialization.
C11_CompressedFromThreshold ==
  \A p \in Procs :
    (Ended(p) /\ call[p].via = "tool" /\ ret[p].kind = "value") =>
      /\ ret[p].data.compressed = (tracker.size >= 102400)
      /\ ret[p].data.compressed => ret[p].data.originalSize = tracker.size
      /\ ~ret[p].data.compressed => ret[p].data.length = tracker.size

\* C11 happens: the tool has returned a serialization of length 102400
C11_Witness ==
  \E p \in Procs :
    /\ Ended(p) /\ call[p].via = "tool" /\ ret[p].kind = "value"
    /\ tracker.size = 102400
    /\ ret[p].data.compressed

\* C12: the parameter objects of two calls, when they hold the same fields in
\* any order, give the same cache key and the same URL; and of the two calls the
\* second sends the same URL as the first, or, with caching enabled and the
\* first call's entry younger than the time to live, no request at all, and
\* returns what the first one stored.
C12_KeyIgnoresFieldOrder ==
  /\ LET a == tracker.calls[1].params
         b == tracker.calls[2].params
     IN FieldsOf(a) = FieldsOf(b) =>
          /\ IssuesKey(a) = IssuesKey(b)
          /\ IssuesUrl(a) = IssuesUrl(b)
  /\ (/\ Len(results) = 2
      /\ results[1].call.via = results[2].call.via
      /\ FieldsOf(results[1].call.params) = FieldsOf(results[2].call.params)) =>
       /\ (results[1].sent # <<>> /\ results[2].sent # <<>>) =>
            /\ results[1].sent[1].url = results[2].sent[1].url
            /\ results[1].sent[1].key = results[2].sent[1].key
       /\ (/\ config.CACHE_ENABLED
           /\ results[1].ret.kind = "value"
           /\ results[2].at - results[1].at < config.CACHE_TTL_SECONDS * 1000) =>
            /\ results[2].sent = <<>>
            /\ results[2].ret.cached
            /\ results[2].ret.data = results[1].ret.data

\* C12 happens: the second call gave the fields of the first in another order
\* and was served from the cache
C12_Witness ==
  /\ Len(results) = 2
  /\ FieldsOf(results[1].call.params) = FieldsOf(results[2].call.params)
  /\ results[1].call.params # results[2].call.params
  /\ results[2].ret.cached
  /\ results[2].sent = <<>>

\* C19: a get_issues invocation without pageSize and page requests page 1 with
\* page size 20; a call of the gateway's getIssues without them requests
\* page 1 with page size 50.
C19_FacadeDefaultPageSize ==
  \A p \in Procs :
    (/\ pc[p] # "idle" /\ sent[p] # <<>>
     /\ ~Has(call[p].params, "pageSize") /\ ~Has(call[p].params, "page")) =>
      sent[p][1].url[2] = IF call[p].via = "tool" THEN <<1, 20>> ELSE <<1, 50>>

\* C19 happens: a get_issues invocation without pageSize has sent its request
C19_Witness ==
  \E p \in Procs :
    /\ pc[p] # "idle" /\ sent[p] # <<>>
    /\ call[p].via = "tool"
    /\ ~Has(call[p].params, "pageSize")

\* C13, as stated: getUserByUsername is served from its entry while that is
\* less than 300000 ms old, whatever CACHE_TTL_SECONDS is, and otherwise sends
\* one GET and stores the result with the current time; and, the entry being
\* kept apart from the general cache, it is still there, young, when a
\* mutating operation has returned.  Violated: clearCache empties the one map
\* that holds both.
C13_UsernameCacheOwnLifetime ==
  \A p \in Procs :
    /\ (Ended(p) /\ call[p].op = "getUserByUsername") =>
         LET k == Key("user_", <<call[p].id>>)
         IN IF k \in DOMAIN snap[p] /\ now - snap[p][k].timestamp < 300000
            THEN sent[p] = <<>> /\ ret[p].cached /\ ret[p].data = snap[p][k].data
            ELSE /\ Len(sent[p]) = 1
                 /\ sent[p][1].method = "GET"
                 /\ ret[p].kind = "value" =>
                      (k \in DOMAIN cache /\ cache[k].data = sent[p][1].id)
    /\ (Ended(p) /\ call[p].op \in WriteOps) =>
         \A k \in DOMAIN snap[p] :
           (k[1] = "user_" /\ now - snap[p][k].timestamp < 300000) =>
             (k \in DOMAIN cache /\ cache[k] = snap[p][k])

\* C20: a tool invoked while MANTIS_API_KEY is not set ends at once with the
\* failure response "Mantis API is not configured", flagged isError; its
\* action has not run: no request was sent and the cache is as it was.
C20_NotConfiguredRunsNothing ==
  \A p \in Procs :
    (pc[p] # "idle" /\ IsTool(call[p].op) /\ ~config.MANTIS_API_KEY) =>
      /\ pc[p] = "done"
      /\ resp[p].isError
      /\ resp[p].error = <<"Mantis API is not configured", "">>
      /\ ret[p] = NoRet
      /\ sent[p] = <<>>
      /\ cache = snap[p]

\* C20 happens: a tool was invoked without the key, on a filled cache
C20_Witness ==
  \E p \in Procs :
    /\ pc[p] = "done" /\ IsTool(call[p].op) /\ ~config.MANTIS_API_KEY
    /\ DOMAIN snap[p] # {}
    /\ resp[p].isError

\* C14: when the period-filtered set of issues is empty, the grouped statistics
\* end without an error: the action returns the payload {error: "No issues
\* found"}, which the facade passes on as a normal response, not flagged as an
\* error, while every failure of the action is flagged
C14_EmptySelectionIsNormalResponse ==
  \A i \in DOMAIN results :
    /\ ((results[i].cached \/ (results[i].sent # <<>> /\ Last(results[i].sent).out.ok))
        /\ PeriodFilter(tracker.issues, tracker.period, results[i].at) = <<>>)
         => /\ results[i].ret.kind = "value"
            /\ results[i].ret.data = NoIssuesFound
            /\ ~results[i].resp.isError
            /\ results[i].resp.text = "result"
    /\ results[i].ret.kind = "throw" => results[i].resp.isError

C14_Witness ==
  \E i \in DOMAIN results :
    /\ results[i].ret.kind = "value"
    /\ tracker.issues # <<>>
    /\ tracker.period = "today"
    /\ PeriodFilter(tracker.issues, tracker.period, results[i].at) = <<>>
    /\ results[i].ret.data = NoIssuesFound
    /\ ~results[i].resp.isError

\* C18: two calls of the grouped statistics with the same project, grouping and
\* period, with no mutation in between, the same tracker data and the same
\* period boundaries, return the same payload and so the same mapping of group
\* keys to counts, whether the issue list came from the cache or from a request
C18_GroupStatisticsRepeatable ==
  \A i, j \in DOMAIN results :
    (/\ results[i].ret.kind = "value"
     /\ results[j].ret.kind = "value"
     /\ StartOfDay(results[i].at) = StartOfDay(results[j].at))
      => results[i].ret.data = results[j].ret.data

C18_Witness ==
  \E i, j \in DOMAIN results :
    /\ i < j
    /\ results[i].at < results[j].at
    /\ ~results[i].cached
    /\ ~results[j].cached
    /\ results[i].ret.kind = "value"
    /\ results[j].ret.kind = "value"
    /\ results[i].ret.data # NoIssuesFound
    /\ tracker.period = "today"
    /\ Cardinality(DOMAIN results[j].ret.data.data) = 2

\* the ids of the issues of the sequence that handler h handles, in input order
IdsHandledBy(issues, h) ==
  LET mine == SelectSeq(issues, LAMBDA issue : issue.handler.id = h)
  IN [k \in DOMAIN mine |-> mine[k].id]

\* how many issues of the sequence handled by h have the status Resolved or CLOSED
ClosedHandledBy(issues, h) ==
  Cardinality({k \in DOMAIN issues : issues[k].handler.id = h /\ issues[k].status.id \in {80, 90}})

\* C15: in the assignment statistics every handler with a non-zero id among the
\* status-filtered issues has one entry, whose total is the number of its
\* issues, closed the number of those whose status name contains "closed" or
\* "resolved" in any letter case, open the rest, and whose id list holds those
\* issues' ids in input order; with includeUnassigned and an issue without
\* handler, an entry of id 0 holds the count and the ids of such issues
C15_PerHandlerEntry ==
  \A i \in DOMAIN results :
    results[i].ret.kind = "value" =>
      LET filtered == StatusFiltered(tracker.issues, tracker.statusFilter)
          stats == results[i].ret.data.userStatistics
          handlers == {filtered[k].handler.id : k \in DOMAIN filtered}
      IN /\ \A h \in handlers \ {0} :
              /\ Cardinality({e \in DOMAIN stats : stats[e].id = h}) = 1
              /\ \A e \in DOMAIN stats : stats[e].id = h =>
                   /\ stats[e].issueCount = Len(IdsHandledBy(filtered, h))
                   /\ stats[e].closedIssues = ClosedHandledBy(filtered, h)
                   /\ stats[e].openIssues = stats[e].issueCount - stats[e].closedIssues
                   /\ stats[e].issues = IdsHandledBy(filtered, h)
         /\ (tracker.includeUnassigned /\ 0 \in handlers) =>
              /\ Cardinality({e \in DOMAIN stats : stats[e].id = 0}) = 1
              /\ \A e \in DOMAIN stats : stats[e].id = 0 =>
                   /\ stats[e].issueCount = Len(IdsHandledBy(filtered, 0))
                   /\ stats[e].issues = IdsHandledBy(filtered, 0)

\* handler 7 has a Resolved issue and an open one, among three filtered issues
\* of which one has no handler, and the unassigned bucket is present
C15_Witness ==
  \E i \in DOMAIN results :
    /\ results[i].ret.kind = "value"
    /\ tracker.includeUnassigned
    /\ tracker.statusFilter # <<>>
    /\ Len(tracker.issues) = 3
    /\ LET stats == results[i].ret.data.userStatistics
       IN /\ \E e \in DOMAIN stats :
               /\ stats[e].id = 7
               /\ stats[e].issueCount = 2
               /\ stats[e].closedIssues = 1
               /\ stats[e].openIssues = 1
          /\ \E e \in DOMAIN stats : stats[e].id = 0 /\ stats[e].issueCount = 1

\* C16: the list of entries of the assignment statistics, the unassigned bucket
\* included, is in descending order of total, and handlers with equal totals
\* are in the order in which they were first seen in the issue list
C16_ListDescendingByTotal ==
  \A i \in DOMAIN results :
    results[i].ret.kind = "value" =>
      LET filtered == StatusFiltered(tracker.issues, tracker.statusFilter)
          stats == results[i].ret.data.userStatistics
          FirstSeen(h) == CHOOSE k \in DOMAIN filtered :
                            /\ filtered[k].handler.id = h
                            /\ \A j \in 1..(k - 1) : filtered[j].handler.id # h
      IN \A a, b \in DOMAIN stats :
           a < b =>
             /\ stats[a].issueCount >= stats[b].issueCount
             /\ (stats[a].issueCount = stats[b].issueCount /\ stats[a].id # 0 /\ stats[b].id # 0)
                  => FirstSeen(stats[a].id) < FirstSeen(stats[b].id)

\* C17: when the search request is answered, a parsed response without result
\* node and with a Fault node raises a MantisApiError that carries the fault
\* string; one with neither returns the empty list; a result that is one object
\* or an array returns one mapped issue per wire item, in order
C17_SoapResponseCases ==
  \A i \in DOMAIN results :
    Last(results[i].sent).out.ok =>
      LET body == tracker.body
          end == results[i].ret
      IN /\ (body.result.kind = "absent" /\ body.fault.present) =>
              /\ end.kind = "throw"
              /\ end.err.name = "MantisApiError"
              /\ body.fault.faultstring # <<>> =>
                   end.err.message = <<"SOAP fault: ", body.fault.faultstring>>
         /\ (body.result.kind = "absent" /\ ~body.fault.present) =>
              end.kind = "value" /\ end.data = <<>>
         /\ body.result.kind \in {"object", "array"} =>
              /\ end.kind = "value"
              /\ Len(end.data) = Len(body.result.items)
              /\ body.result.kind = "object" => Len(end.data) = 1
              /\ \A k \in DOMAIN end.data : end.data[k] = MapSoapIssue(body.result.items[k])

\* a fault with a fault string and no result has been answered with the error
C17_Witness ==
  \E i \in DOMAIN results :
    /\ Last(results[i].sent).out.ok
    /\ tracker.body.result.kind = "absent"
    /\ tracker.body.fault.present
    /\ tracker.body.fault.faultstring # <<>>
    /\ results[i].ret.kind = "throw"
    /\ results[i].ret.err.message[2] = tracker.body.fault.faultstring

\* the five entities of XML and the characters they stand for
XmlEntities ==
  {<<"&", <<"&", "a", "m", "p", ";">>>>, <<"<", <<"&", "l", "t", ";">>>>,
   <<">", <<"&", "g", "t", ";">>>>, <<"\"", <<"&", "q", "u", "o", "t", ";">>>>,
   <<"'", <<"&", "a", "p", "o", "s", ";">>>>}

EntityAt(str, i) ==
  {e \in XmlEntities : i + Len(e[2]) - 1 <= Len(str) /\ SubSeq(str, i, i + Len(e[2]) - 1) = e[2]}

\* the text that an XML reader gets from an escaped string: each entity is
\* decoded once
RECURSIVE XmlDecode(_)
XmlDecode(str) ==
  IF str = <<>> THEN <<>>
  ELSE IF EntityAt(str, 1) # {}
  THEN LET e == CHOOSE x \in EntityAt(str, 1) : TRUE
       IN <<e[1]>> \o XmlDecode(SubSeq(str, Len(e[2]) + 1, Len(str)))
  ELSE <<Head(str)>> \o XmlDecode(Tail(str))

EscapedOnce(in, out) ==
  /\ \A i \in DOMAIN out : out[i] \notin {"<", ">", "\"", "'"}
  /\ \A i \in DOMAIN out : out[i] = "&" => EntityAt(out, i) # {}
  /\ XmlDecode(out) = in

\* C21: every string put into the SOAP envelope (the API key, search, sort and
\* sort direction) is escaped: the text sent has none of < > " ', every & in it
\* starts one of the five entities, and decoding the entities once gives the
\* string back, so nothing is escaped twice
C21_EnvelopeStringsEscapedOnce ==
  \A p \in Procs :
    sent[p] # <<>> =>
      LET body == sent[p][1].body
          Field(name) == {body.filter[k][2] : k \in {j \in DOMAIN body.filter : body.filter[j][1] = name}}
      IN /\ EscapedOnce(tracker.apiKey, body.password)
         /\ tracker.params.search # <<>> =>
              /\ Field("search") # {}
              /\ \A out \in Field("search") : EscapedOnce(tracker.params.search, out)
         /\ tracker.params.sort # <<>> =>
              /\ Field("sort") # {}
              /\ \A out \in Field("sort") : EscapedOnce(tracker.params.sort, out)
         /\ tracker.params.sortDirection # <<>> =>
              /\ Field("sort_direction") # {}
              /\ \A out \in Field("sort_direction") : EscapedOnce(tracker.params.sortDirection, out)

\* a search for the text &lt; has been sent, as &amp;lt;
C21_Witness ==
  \E p \in Procs :
    /\ sent[p] # <<>>
    /\ tracker.params.search = <<"&", "l", "t", ";">>
    /\ tracker.params.sort # <<>>
    /\ \E k \in DOMAIN sent[p][1].body.filter :
         sent[p][1].body.filter[k] = <<"search", <<"&", "a", "m", "p", ";", "l", "t", ";">>>>

\* the number that an id leaf stands for: 42 for the numeral, 0 for an
\* absent leaf and for a text that is not a number
IdOfLeaf(text) == IF text = <<"4", "2">> THEN 42 ELSE 0

\* C22: mapSoapIssue maps every wire item of an answered search without
\* failing: each numeric id (issue, status, project, reporter, handler,
\* priority, severity, custom field) that is missing or not a number maps to 0,
\* and an absent handler, priority, severity or custom_fields maps to an absent
\* field, not to an object filled with zeros
C22_MapSoapIssueTotal ==
  \A i \in DOMAIN results :
    (Last(results[i].sent).out.ok /\ tracker.body.result.kind \in {"object", "array"}) =>
      /\ results[i].ret.kind = "value"
      /\ Len(results[i].ret.data) = Len(tracker.body.result.items)
      /\ \A k \in DOMAIN tracker.body.result.items :
           LET w == tracker.body.result.items[k]
               m == results[i].ret.data[k]
           IN /\ m.id = IdOfLeaf(w.id)
              /\ m.status.id = (IF w.status.present THEN IdOfLeaf(w.status.id) ELSE 0)
              /\ m.project.id = (IF w.project.present THEN IdOfLeaf(w.project.id) ELSE 0)
              /\ m.reporter.id = (IF w.reporter.present THEN IdOfLeaf(w.reporter.id) ELSE 0)
              /\ m.handler.present = w.handler.present
              /\ m.priority.present = w.priority.present
              /\ m.severity.present = w.severity.present
              /\ w.handler.present => m.handler.id = IdOfLeaf(w.handler.id)
              /\ w.priority.present => m.priority.id = IdOfLeaf(w.priority.id)
              /\ w.severity.present => m.severity.id = IdOfLeaf(w.severity.id)
              /\ m.custom_fields.present = (w.custom_fields.kind # "absent")
              /\ Len(m.custom_fields.items) = Len(w.custom_fields.items)
              /\ \A j \in DOMAIN w.custom_fields.items :
                   m.custom_fields.items[j].field.id =
                     (IF w.custom_fields.items[j].field.present
                      THEN IdOfLeaf(w.custom_fields.items[j].field.id) ELSE 0)

\* an item whose id is not a number, with a numbered status, without handler
\* and with one custom field, has been mapped
C22_Witness ==
  \E i \in DOMAIN results :
    /\ results[i].ret.kind = "value"
    /\ tracker.body.result.kind = "object"
    /\ LET w == tracker.body.result.items[1]
           m == results[i].ret.data[1]
       IN /\ w.id = <<"x", "7">>
          /\ m.id = 0
          /\ w.status.present
          /\ m.status.id = 42
          /\ ~w.handler.present
          /\ ~m.handler.present
          /\ w.custom_fields.kind = "object"
          /\ m.custom_fields.present

\* C23: once a mutating operation has completed, the cache holds no entry
\* whose request was sent before the request of that mutation: the response of
\* a read that was in flight during the mutation is not stored after the clear
C23_NoEntryFromBeforeMutation ==
  \A p \in DOMAIN pc :
    (pc[p] = "done" /\ call[p].op = "createIssue" /\ ret[p].kind = "value") =>
      \A k \in DOMAIN cache : cache[k].data > sent[p][1].id

\* C24: with caching enabled, no two invocations await at the same time the
\* answers to two requests for the same cache key
C24_OneRequestPerKeyInFlight ==
  \A p, q \in DOMAIN pc :
    (/\ p # q
     /\ config.CACHE_ENABLED
     /\ pc[p] = "wait"
     /\ pc[q] = "wait"
     /\ Last(sent[p]).method = "GET"
     /\ Last(sent[q]).method = "GET")
      => Last(sent[p]).key # Last(sent[q]).key

\* the step is the arrival of the answer that invocation p awaits, and the
\* answer that arrives
Answers(p) ==
  /\ pc[p] = "wait"
  /\ Len(sent'[p]) >= Len(sent[p])
  /\ sent'[p][Len(sent[p])].id = Last(sent[p]).id
  /\ sent'[p][Len(sent[p])].out # Pending

AnswerOf(p) == sent'[p][Len(sent[p])].out

\* C25: entries leave the cache only when it is cleared, by the completion of a
\* mutating request, and then all of them leave; an entry, expired or not,
\* changes only when a successful fetch for its key replaces it; and a read
\* whose fetch fails leaves the whole cache as it was and throws
C25_OnlyClearRemovesEntries ==
  [][/\ (\E k \in DOMAIN cache : k \notin DOMAIN cache') =>
          /\ cache' = EmptyCache
          /\ \E p \in Procs : Answers(p) /\ IsMutation(Last(sent[p]))
     /\ \A k \in DOMAIN cache \cap DOMAIN cache' :
          cache'[k] # cache[k] =>
            \E p \in Procs : /\ Answers(p)
                             /\ AnswerOf(p).ok
                             /\ Last(sent[p]).method = "GET"
                             /\ Last(sent[p]).key = k
     /\ \A p \in Procs :
          (Answers(p) /\ ~AnswerOf(p).ok /\ call[p].op \in ReadOps) =>
            /\ cache' = cache
            /\ ret'[p].kind = "throw"]_vars

\* a read has failed while the cache held an expired entry for its key, and
\* the entry is still there
C25_Witness ==
  \E p \in Procs :
    /\ Ended(p)
    /\ call[p] \in CachedReads
    /\ ret[p].kind = "throw"
    /\ config.CACHE_ENABLED
    /\ ReadKey(call[p]) \in DOMAIN cache
    /\ now - cache[ReadKey(call[p])].timestamp >= CacheTtlMs(config)

\* the ids of the users that a call has asked the tracker for, in the order
\* of the requests
LookedUp(log) ==
  LET gets == SelectSeq(log, LAMBDA req : req.url[1] = "/users/")
  IN [k \in DOMAIN gets |-> gets[k].url[2][1]]

\* C26: a call of the assignment statistics asks the tracker for users that
\* handle filtered issues only, each at most once and in the order in which
\* the handlers are first seen; when it returns statistics every handler has
\* been looked up, by a request or from the cache; and when a request fails,
\* no further request is sent and the answer is a failure without statistics
C26_OneLookupPerHandler ==
  \A i \in DOMAIN results :
    LET filtered == StatusFiltered(tracker.issues, tracker.statusFilter)
        handlers == {filtered[k].handler.id : k \in DOMAIN filtered} \ {0}
        FirstSeen(h) == CHOOSE k \in DOMAIN filtered :
                          /\ filtered[k].handler.id = h
                          /\ \A j \in 1..(k - 1) : filtered[j].handler.id # h
        log == results[i].sent
        ids == LookedUp(log)
    IN /\ \A a \in DOMAIN ids : ids[a] \in handlers
       /\ \A a, b \in DOMAIN ids : a < b => FirstSeen(ids[a]) < FirstSeen(ids[b])
       /\ results[i].ret.kind = "value" =>
            /\ \A k \in DOMAIN log : log[k].out.ok
            /\ \A h \in handlers :
                 \/ \E a \in DOMAIN ids : ids[a] = h
                 \/ config.CACHE_ENABLED /\ Key("user-", <<h>>) \in DOMAIN cache
            /\ ~config.CACHE_ENABLED => Len(ids) = Cardinality(handlers)
       /\ \A k \in DOMAIN log :
            ~log[k].out.ok => /\ k = Len(log)
                              /\ results[i].ret.kind = "throw"
                              /\ results[i].ret.data = NoValue
                              /\ results[i].resp.isError

\* a second call has looked up the second of two handlers by a request and the
\* first from the cache, after a first call whose second lookup failed
C26_Witness ==
  \E i, j \in DOMAIN results :
    /\ i < j
    /\ Len(HandlerIds(StatusFiltered(tracker.issues, tracker.statusFilter))) = 2
    /\ results[i].ret.kind = "throw"
    /\ Len(LookedUp(results[i].sent)) = 2
    /\ results[j].ret.kind = "value"
    /\ Len(LookedUp(results[j].sent)) = 1

\* C27: every probe of the enumeration of the users, however it is answered,
\* is followed by the probe of the next id, so that the loop cannot probe one id
\* for ever.  Violated by an answer that is a failure other than a 404.
C27_EveryProbeAdvances ==
  [][\A p \in Procs :
       (pc[p] = "wait" /\ call[p].op = "get_users" /\ pc'[p] # "wait")
         => enum'.id = enum.id + 1]_vars

\* C28: when changeIssueStatus or updateIssue returns an issue, the tracker
\* has accepted the change: the PATCH it sent was not answered with a failure.
\* Violated, as a failed PATCH is followed by a GET whose issue is returned.
C28_SuccessMeansPatchAccepted ==
  \A p \in Procs :
    (Ended(p) /\ call[p].op \in {"changeIssueStatus", "updateIssue"} /\ ret[p].kind = "value") =>
      \A i \in Indices(p) : sent[p][i].method = "PATCH" => sent[p][i].out.ok

\* the sum of the values of a function with a finite domain
RECURSIVE SumOver(_, _)
SumOver(f, keys) ==
  IF keys = {} THEN 0
  ELSE LET k == CHOOSE x \in keys : TRUE IN f[k] + SumOver(f, keys \ {k})

\* C29: in every result of the grouped statistics that is not the empty one,
\* total is the sum of the counts of the groups.  Violated when the period
\* leaves out some of the issues: total counts the issues before the filter.
C29_TotalIsSumOfCounts ==
  \A i \in DOMAIN results :
    (results[i].ret.kind = "value" /\ results[i].ret.data # NoIssuesFound) =>
      results[i].ret.data.total =
        SumOver(results[i].ret.data.data, DOMAIN results[i].ret.data.data)

\* C30: in every result of the assignment statistics, with includeUnassigned
\* true or false, assignedIssues is the number of filtered issues with a
\* handler, unassignedIssues the number of those without, totalIssues their
\* sum, every entry has total = open + closed = length of its id list, and the
\* totals of the real handlers sum to assignedIssues.  Violated with
\* includeUnassigned false and an issue without handler.
C30_AssignmentTotalsConsistent ==
  \A i \in DOMAIN results :
    results[i].ret.kind = "value" =>
      LET filtered == StatusFiltered(tracker.issues, tracker.statusFilter)
          st == results[i].ret.data
          real == SelectSeq(st.userStatistics, LAMBDA e : e.id # 0)
          totals == [k \in DOMAIN real |-> real[k].issueCount]
      IN /\ st.assignedIssues = Cardinality({k \in DOMAIN filtered : filtered[k].handler.id # 0})
         /\ st.unassignedIssues = Cardinality({k \in DOMAIN filtered : filtered[k].handler.id = 0})
         /\ st.totalIssues = st.assignedIssues + st.unassignedIssues
         /\ \A k \in DOMAIN st.userStatistics :
              /\ st.userStatistics[k].issueCount
                   = st.userStatistics[k].openIssues + st.userStatistics[k].closedIssues
              /\ st.userStatistics[k].issueCount = Len(st.userStatistics[k].issues)
         /\ SumOver(totals, DOMAIN totals) = st.assignedIssues

====
